---------------------------- MODULE Spec2Model ----------------------------
(***************************************************************************)
(* Model of frontend/js/text-fragment-utils.js (the query-aware variant,   *)
(* lines 1-226): supportsTextFragments, sanitizeFragment, extractKeywords, *)
(* cleanSnippet, extractTextFragment and buildTextFragmentUrl, and of the  *)
(* console experiment of the guides that chains the last two; of the       *)
(* length-only variant of the same file (lines 228-347); and of            *)
(* renderSourceLink of frontend/js/response-renderer.js, which calls them. *)
(*                                                                         *)
(* A JavaScript string is a sequence of characters; a character is a       *)
(* one-character TLA+ string.  The characters that cannot be written in    *)
(* a TLA+ string are named: "U+0060" (backtick), "U+00A0" (no-break       *)
(* space), "U+2026" (ellipsis),                                            *)
(* "U+201C"/"U+201D" (curly double quotes), "U+2018"/"U+2019" (curly       *)
(* apostrophes), "U+D800" (a lone surrogate).  An element that starts with *)
(* "&" stands for the characters of that HTML entity written out, e.g.     *)
(* "&lt;" is the four characters & l t ; and "&amp;lt;" the eight          *)
(* characters & a m p ; l t ;.  A bare "&" never occurs, so the reading of *)
(* a sequence as a JavaScript string is unique (Expand gives it).          *)
(***************************************************************************)
EXTENDS Integers, Sequences, FiniteSets

VARIABLES
    pc,             \* which call has been made
    snippet,        \* extractTextFragment: argument snippet (a JS value)
    options,        \* extractTextFragment: argument options
    extraction,     \* extractTextFragment: what the call did
    text,           \* sanitizeFragment: argument
    once,           \* sanitizeFragment(text)
    twice,          \* sanitizeFragment(sanitizeFragment(text))
    baseUrl,        \* buildTextFragmentUrl: argument baseUrl (a JS value)
    fragmentText,   \* buildTextFragmentUrl: argument fragmentText (a JS value)
    url,            \* buildTextFragmentUrl(baseUrl, fragmentText)
    fragmentText2,  \* fragment of the second application
    url2,           \* buildTextFragmentUrl(url, fragmentText2)
    keywords,       \* extractKeywords(text)
    document,       \* the property names of the global document
    userAgent,      \* navigator.userAgent
    supported,      \* supportsTextFragments()
    supportedAgain, \* supportsTextFragments(), a second time
    lengthOnly,     \* the length-only extractTextFragment: what the call did
    source,         \* renderSourceLink: argument source
    link            \* renderSourceLink: the a element it returns

keywordVars == <<keywords>>
agentVars == <<document, userAgent, supported, supportedAgain>>
variantVars == <<lengthOnly>>
linkVars == <<source, link>>
vars == <<pc, snippet, options, extraction, text, once, twice,
          baseUrl, fragmentText, url, fragmentText2, url2,
          keywordVars, agentVars, variantVars, linkVars>>

---------------------------------------------------------------------------
(* Character classes of the regular expressions.                           *)

Lower == {"a","b","c","d","e","f","g","h","i","j","k","l","m",
          "n","o","p","q","r","s","t","u","v","w","x","y","z"}
Upper == {"A","B","C","D","E","F","G","H","I","J","K","L","M",
          "N","O","P","Q","R","S","T","U","V","W","X","Y","Z"}
Digit == {"0","1","2","3","4","5","6","7","8","9"}

\* \w
WordChar == Lower \cup Upper \cup Digit \cup {"_"}
\* \s (and what String.prototype.trim strips)
Space == {" ", "\t", "\n", "U+00A0"}
\* what . does not match, and what ^ follows under the m flag
LineTerminator == {"\n"}
\* [.!?]
Terminator == {".", "!", "?"}

LowerOf == [c \in Upper |->
    CASE c = "A" -> "a" [] c = "B" -> "b" [] c = "C" -> "c" [] c = "D" -> "d"
      [] c = "E" -> "e" [] c = "F" -> "f" [] c = "G" -> "g" [] c = "H" -> "h"
      [] c = "I" -> "i" [] c = "J" -> "j" [] c = "K" -> "k" [] c = "L" -> "l"
      [] c = "M" -> "m" [] c = "N" -> "n" [] c = "O" -> "o" [] c = "P" -> "p"
      [] c = "Q" -> "q" [] c = "R" -> "r" [] c = "S" -> "s" [] c = "T" -> "t"
      [] c = "U" -> "u" [] c = "V" -> "v" [] c = "W" -> "w" [] c = "X" -> "x"
      [] c = "Y" -> "y" [] c = "Z" -> "z"]

---------------------------------------------------------------------------
(* String primitives: the JavaScript string and RegExp operations the      *)
(* source uses, on sequences of characters.                                *)

\* s.substring(i-1, j) with 1-based inclusive bounds; empty when j < i
Sub(s, i, j) == IF j < i THEN <<>> ELSE SubSeq(s, i, j)

\* pieces.join(sep)
RECURSIVE Join(_, _)
Join(pieces, sep) ==
    IF Len(pieces) = 0 THEN <<>>
    ELSE IF Len(pieces) = 1 THEN pieces[1]
    ELSE pieces[1] \o sep \o Join(Tail(pieces), sep)

\* first index >= i whose character is not in set (Len(s)+1 if none)
RECURSIVE RunEnd(_, _, _)
RunEnd(s, set, i) ==
    IF i > Len(s) \/ s[i] \notin set THEN i ELSE RunEnd(s, set, i + 1)

\* the least element of a set of indices, none if the set is empty
First(indices, none) ==
    IF indices = {} THEN none
    ELSE CHOOSE j \in indices : \A k \in indices : j <= k

\* the strings of a sequence one after the other
RECURSIVE Flat(_)
Flat(pieces) ==
    IF Len(pieces) = 0 THEN <<>>
    ELSE IF Len(pieces) = 1 THEN pieces[1]
    ELSE LET half == Len(pieces) \div 2
         IN  Flat(SubSeq(pieces, 1, half))
             \o Flat(SubSeq(pieces, half + 1, Len(pieces)))

\* s.replace(/[set]/g, rep): every character of set becomes the string rep
ReplaceChars(s, set, rep) ==
    Flat([i \in 1..Len(s) |-> IF s[i] \in set THEN rep ELSE <<s[i]>>])

\* s.replace(/[set]{min,}/g, rep): every maximal run of at least min
\* characters of set becomes rep.  The scan goes from one match to the next.
RECURSIVE ReplaceRunsFrom(_, _, _, _, _)
ReplaceRunsFrom(s, set, min, rep, i) ==
    LET j == First({k \in i..Len(s) :
                      /\ s[k] \in set
                      /\ (k = i \/ s[k - 1] \notin set)
                      /\ RunEnd(s, set, k) - k >= min}, 0)
    IN  IF j = 0 THEN Sub(s, i, Len(s))
        ELSE Sub(s, i, j - 1) \o rep
             \o ReplaceRunsFrom(s, set, min, rep, RunEnd(s, set, j))

ReplaceRuns(s, set, min, rep) == ReplaceRunsFrom(s, set, min, rep, 1)

\* s.trim()
RECURSIVE TrimEnd(_)
TrimEnd(s) ==
    IF s # <<>> /\ s[Len(s)] \in Space THEN TrimEnd(Sub(s, 1, Len(s) - 1)) ELSE s

Trim(s) == TrimEnd(Sub(s, RunEnd(s, Space, 1), Len(s)))

\* s.split(/[set]+/): the pieces between the maximal runs of set, the empty
\* pieces at either end included; [""] for the empty string
RECURSIVE SplitRunsFrom(_, _, _)
SplitRunsFrom(s, set, i) ==
    LET j == First({k \in i..Len(s) : s[k] \in set}, 0)
    IN  IF j = 0 THEN <<Sub(s, i, Len(s))>>
        ELSE <<Sub(s, i, j - 1)>> \o SplitRunsFrom(s, set, RunEnd(s, set, j))

SplitRuns(s, set) == SplitRunsFrom(s, set, 1)

\* s.split(c) for a one-character separator c: the pieces between the
\* occurrences of c, empty pieces included
RECURSIVE SplitEachFrom(_, _, _)
SplitEachFrom(s, c, i) ==
    LET j == First({k \in i..Len(s) : s[k] = c}, 0)
    IN  IF j = 0 THEN <<Sub(s, i, Len(s))>>
        ELSE <<Sub(s, i, j - 1)>> \o SplitEachFrom(s, c, j + 1)

SplitEach(s, c) == SplitEachFrom(s, c, 1)

\* array.filter(s => s.length > 0)
NonEmpty(s) == Len(s) > 0
FilterNonEmpty(a) == SelectSeq(a, NonEmpty)

\* array.slice(0, n)
Slice0(a, n) == Sub(a, 1, IF n < Len(a) THEN n ELSE Len(a))

---------------------------------------------------------------------------
(* HTML entities: what textarea.innerHTML = t; textarea.value does.        *)

\* the value a textarea holds after one entity-bearing element is parsed
DecodeEntity(c) ==
    CASE c = "&lt;"       -> "<"
      [] c = "&gt;"       -> ">"
      [] c = "&nbsp;"     -> "U+00A0"
      [] c = "&#160;"     -> "U+00A0"
      [] c = "&hellip;"   -> "U+2026"
      [] c = "&amp;lt;"   -> "&lt;"
      [] c = "&amp;gt;"   -> "&gt;"
      [] c = "&amp;nbsp;" -> "&nbsp;"
      [] OTHER            -> c

decodeEntities(s) == [i \in 1..Len(s) |-> DecodeEntity(s[i])]

\* the characters an element stands for
ExpandChar(c) ==
    CASE c = "&lt;"       -> <<"&","l","t",";">>
      [] c = "&gt;"       -> <<"&","g","t",";">>
      [] c = "&nbsp;"     -> <<"&","n","b","s","p",";">>
      [] c = "&#160;"     -> <<"&","#","1","6","0",";">>
      [] c = "&hellip;"   -> <<"&","h","e","l","l","i","p",";">>
      [] c = "&amp;lt;"   -> <<"&","a","m","p",";","l","t",";">>
      [] c = "&amp;gt;"   -> <<"&","a","m","p",";","g","t",";">>
      [] c = "&amp;nbsp;" -> <<"&","a","m","p",";","n","b","s","p",";">>
      [] OTHER            -> <<c>>

Expand(s) == Flat([i \in 1..Len(s) |-> ExpandChar(s[i])])

---------------------------------------------------------------------------
(* sanitizeFragment, text-fragment-utils.js lines 32-49.                   *)

\* the marker pattern with one digit only, /\s*\[\d\]\s*/g
MarkerAt_SingleDigit(s, i) ==
    LET b == RunEnd(s, Space, i)
    IN  IF /\ b + 2 <= Len(s) /\ s[b] = "["
           /\ s[b + 1] \in Digit /\ s[b + 2] = "]"
        THEN RunEnd(s, Space, b + 3) ELSE 0

\* .replace(/\s*\[\d+\]\s*/g, ' '): where the match that starts at i ends
\* (the index after it), 0 if none starts there
MarkerAt(s, i) ==
    LET b == RunEnd(s, Space, i)
        d == RunEnd(s, Digit, b + 1)
    IN  IF /\ b <= Len(s) /\ s[b] = "["
           /\ d > b + 1
           /\ d <= Len(s) /\ s[d] = "]"
        THEN RunEnd(s, Space, d + 1) ELSE 0

RECURSIVE RemoveMarkersFrom(_, _)
RemoveMarkersFrom(s, i) ==
    LET j == First({k \in i..Len(s) : MarkerAt(s, k) > 0}, 0)
    IN  IF j = 0 THEN Sub(s, i, Len(s))
        ELSE Sub(s, i, j - 1) \o <<" ">> \o RemoveMarkersFrom(s, MarkerAt(s, j))

RemoveMarkers(s) == RemoveMarkersFrom(s, 1)

\* .replace(/\.\s*\./g, '.'): where the match that starts at i ends (the
\* index after it), 0 if none starts there
PeriodsAt(s, i) ==
    LET e == RunEnd(s, Space, i + 1)
    IN  IF s[i] = "." /\ e <= Len(s) /\ s[e] = "." THEN e + 1 ELSE 0

RECURSIVE JoinPeriodsFrom(_, _)
JoinPeriodsFrom(s, i) ==
    LET j == First({k \in i..Len(s) : PeriodsAt(s, k) > 0}, 0)
    IN  IF j = 0 THEN Sub(s, i, Len(s))
        ELSE Sub(s, i, j - 1) \o <<".">> \o JoinPeriodsFrom(s, PeriodsAt(s, j))

JoinPeriods(s) == JoinPeriodsFrom(s, 1)

\* .replace(/&nbsp;/g, ' ')
ReplaceNbspText(s) == ReplaceChars(s, {"&nbsp;"}, <<" ">>)

\* sanitizeFragment stripping < and > before it decodes the entities
sanitizeFragment_StripsBeforeDecoding(t) ==
    LET decoded == decodeEntities(ReplaceChars(t, {"<", ">"}, <<>>))
        s4 == ReplaceChars(decoded, {"U+2026"}, <<".">>)
        s5 == ReplaceRuns(s4, {"."}, 2, <<".">>)
        s7 == RemoveMarkers(ReplaceNbspText(s5))
        s9 == JoinPeriods(ReplaceRuns(s7, Space, 1, <<" ">>))
    IN  Trim(s9)

sanitizeFragment(t) ==
    LET decoded == decodeEntities(t)
        s1 == ReplaceChars(decoded, {"<", ">"}, <<>>)
        s2 == ReplaceChars(s1, {"\""}, <<"\"">>)
        s3 == ReplaceChars(s2, {"'"}, <<"'">>)
        s4 == ReplaceChars(s3, {"U+2026"}, <<".">>)
        s5 == ReplaceRuns(s4, {"."}, 2, <<".">>)
        s6 == ReplaceNbspText(s5)
        s7 == RemoveMarkers(s6)
        s8 == ReplaceRuns(s7, Space, 1, <<" ">>)
        s9 == JoinPeriods(s8)
    IN  Trim(s9)

---------------------------------------------------------------------------
(* extractKeywords, text-fragment-utils.js lines 54-81.                    *)

STOP_WORDS == {
    <<"a">>, <<"a","n">>, <<"t","h","e">>, <<"i","s">>, <<"a","r","e">>,
    <<"w","a","s">>, <<"w","e","r","e">>, <<"b","e">>, <<"b","e","e","n">>,
    <<"b","e","i","n","g">>, <<"h","a","v","e">>, <<"h","a","s">>,
    <<"h","a","d">>, <<"d","o">>, <<"d","o","e","s">>, <<"d","i","d">>,
    <<"w","i","l","l">>, <<"w","o","u","l","d">>, <<"c","o","u","l","d">>,
    <<"s","h","o","u","l","d">>, <<"m","a","y">>, <<"m","i","g","h","t">>,
    <<"m","u","s","t">>, <<"c","a","n">>, <<"n","e","e","d">>, <<"t","o">>,
    <<"o","f">>, <<"i","n">>, <<"f","o","r">>, <<"o","n">>,
    <<"w","i","t","h">>, <<"a","t">>, <<"b","y">>, <<"f","r","o","m">>,
    <<"a","s">>, <<"i","n","t","o">>, <<"t","h","r","o","u","g","h">>,
    <<"d","u","r","i","n","g">>, <<"b","e","f","o","r","e">>,
    <<"a","f","t","e","r">>, <<"a","b","o","v","e">>,
    <<"b","e","l","o","w">>, <<"b","e","t","w","e","e","n">>,
    <<"u","n","d","e","r">>, <<"a","g","a","i","n">>,
    <<"f","u","r","t","h","e","r">>, <<"t","h","e","n">>,
    <<"o","n","c","e">>, <<"h","e","r","e">>, <<"t","h","e","r","e">>,
    <<"w","h","e","n">>, <<"w","h","e","r","e">>, <<"w","h","y">>,
    <<"h","o","w">>, <<"a","l","l">>, <<"e","a","c","h">>, <<"f","e","w">>,
    <<"m","o","r","e">>, <<"m","o","s","t">>, <<"o","t","h","e","r">>,
    <<"s","o","m","e">>, <<"s","u","c","h">>, <<"n","o">>, <<"n","o","r">>,
    <<"n","o","t">>, <<"o","n","l","y">>, <<"o","w","n">>,
    <<"s","a","m","e">>, <<"s","o">>, <<"t","h","a","n">>, <<"t","o","o">>,
    <<"v","e","r","y">>, <<"j","u","s","t">>, <<"a","n","d">>,
    <<"b","u","t">>, <<"i","f">>, <<"o","r">>,
    <<"b","e","c","a","u","s","e">>, <<"u","n","t","i","l">>,
    <<"w","h","i","l","e">>, <<"a","b","o","u","t">>,
    <<"a","g","a","i","n","s","t">>, <<"w","h","a","t">>,
    <<"w","h","i","c","h">>, <<"w","h","o">>, <<"w","h","o","m">>,
    <<"t","h","i","s">>, <<"t","h","a","t">>, <<"t","h","e","s","e">>,
    <<"t","h","o","s","e">>, <<"a","m">>, <<"b","o","t","h">>, <<"i","t">>,
    <<"i","t","s">>, <<"i">>, <<"m","e">>, <<"m","y">>}

toLowerCase(s) ==
    [i \in 1..Len(s) |-> IF s[i] \in Upper THEN LowerOf[s[i]] ELSE s[i]]

\* extractKeywords without the stop-word test of its filter
extractKeywords_KeepsStopWords(t) ==
    IF t = <<>> THEN {}
    ELSE LET lowered == toLowerCase(Expand(t))
             spaced == [i \in 1..Len(lowered) |->
                          IF lowered[i] \in WordChar \cup Space
                          THEN lowered[i] ELSE " "]
             words == SplitRuns(spaced, Space)
         IN  {words[i] : i \in {j \in 1..Len(words) : Len(words[j]) > 2}}

\* if (!text) return new Set(); otherwise the set of the tokens of the
\* lowercased text, punctuation replaced by spaces, that are longer than 2
\* and no stop word.  Each keyword is a string.
extractKeywords(t) ==
    IF t = <<>> THEN {}
    ELSE LET lowered == toLowerCase(Expand(t))
             spaced == [i \in 1..Len(lowered) |->
                          IF lowered[i] \in WordChar \cup Space
                          THEN lowered[i] ELSE " "]
             words == SplitRuns(spaced, Space)
         IN  {words[i] : i \in {j \in 1..Len(words) :
                                  Len(words[j]) > 2 /\ words[j] \notin STOP_WORDS}}

---------------------------------------------------------------------------
(* cleanSnippet, text-fragment-utils.js lines 88-106.                      *)

\* whether pat occurs in s at index i
Matches(s, i, pat) ==
    i + Len(pat) - 1 <= Len(s) /\ SubSeq(s, i, i + Len(pat) - 1) = pat

\* .replace(/^#+\s+/gm, ''): where the match that starts at i ends (the
\* index after it), 0 if none starts there
HeadingAt(s, i) ==
    LET lineStart == i = 1 \/ s[i - 1] \in LineTerminator
        h == RunEnd(s, {"#"}, i)
        e == RunEnd(s, Space, h)
    IN  IF lineStart /\ h > i /\ e > h THEN e ELSE 0

RECURSIVE RemoveHeadingsFrom(_, _)
RemoveHeadingsFrom(s, i) ==
    LET j == First({k \in i..Len(s) : HeadingAt(s, k) > 0}, 0)
    IN  IF j = 0 THEN Sub(s, i, Len(s))
        ELSE Sub(s, i, j - 1) \o RemoveHeadingsFrom(s, HeadingAt(s, j))

RemoveHeadings(s) == RemoveHeadingsFrom(s, 1)

\* where the lazy (.*?) started before j first meets close: the index of
\* close, 0 if a line terminator or the end of s comes first
FindClose(s, close, j) ==
    LET k == First({m \in j..(Len(s) - Len(close) + 1) :
                      Matches(s, m, close) \/ s[m] \in LineTerminator}, 0)
    IN  IF k > 0 /\ Matches(s, k, close) THEN k ELSE 0

\* .replace(/open(.*?)close/g, '$1'): the index of the close of the match
\* that starts at i, 0 if none starts there
WrappedAt(s, open, close, i) ==
    IF Matches(s, i, open) THEN FindClose(s, close, i + Len(open)) ELSE 0

RECURSIVE UnwrapFrom(_, _, _, _)
UnwrapFrom(s, open, close, i) ==
    LET j == First({k \in i..Len(s) : WrappedAt(s, open, close, k) > 0}, 0)
        c == WrappedAt(s, open, close, j)
    IN  IF j = 0 THEN Sub(s, i, Len(s))
        ELSE Sub(s, i, j - 1) \o Sub(s, j + Len(open), c - 1)
             \o UnwrapFrom(s, open, close, c + Len(close))

Unwrap(s, open, close) == UnwrapFrom(s, open, close, 1)

\* for a "[" before j: the index of the first "](" that a ")" follows on the
\* same line, 0 if there is none
FindLinkMiddle(s, j) ==
    LET k == First({m \in j..(Len(s) - 1) :
                      \/ (Matches(s, m, <<"]", "(">>)
                          /\ FindClose(s, <<")">>, m + 2) > 0)
                      \/ s[m] \in LineTerminator}, 0)
    IN  IF k > 0 /\ s[k] \notin LineTerminator THEN k ELSE 0

\* .replace(/\[(.*?)\]\(.*?\)/g, '$1'): the index of the "](" of the match
\* that starts at i, 0 if none starts there
LinkAt(s, i) == IF s[i] = "[" THEN FindLinkMiddle(s, i + 1) ELSE 0

RECURSIVE UnwrapLinksFrom(_, _)
UnwrapLinksFrom(s, i) ==
    LET j == First({k \in i..Len(s) : LinkAt(s, k) > 0}, 0)
        m == LinkAt(s, j)
    IN  IF j = 0 THEN Sub(s, i, Len(s))
        ELSE Sub(s, i, j - 1) \o Sub(s, j + 1, m - 1)
             \o UnwrapLinksFrom(s, FindClose(s, <<")">>, m + 2) + 1)

UnwrapLinks(s) == UnwrapLinksFrom(s, 1)

cleanSnippet(t) ==
    LET c1 == RemoveHeadings(t)
        c2 == Unwrap(c1, <<"*", "*">>, <<"*", "*">>)
        c3 == Unwrap(c2, <<"_", "_">>, <<"_", "_">>)
        c4 == UnwrapLinks(c3)
        c5 == Unwrap(c4, <<"U+0060">>, <<"U+0060">>)
        c6 == ReplaceChars(c5, {"U+2026"}, <<".">>)
        c7 == ReplaceRuns(c6, {"."}, 2, <<".">>)
        c8 == ReplaceNbspText(c7)
        c9 == RemoveMarkers(c8)
        c10 == ReplaceRuns(c9, Space, 1, <<" ">>)
        cleaned == Trim(c10)
    IN  decodeEntities(cleaned)

---------------------------------------------------------------------------
(* JavaScript values: a value is [t |-> typeof-like tag, v |-> content].   *)

JsString(s) == [t |-> "string", v |-> s]
JsNull      == [t |-> "null", v |-> <<>>]
JsUndefined == [t |-> "undefined", v |-> <<>>]
JsNumber(d) == [t |-> "number", v |-> <<d>>]
JsObject    == [t |-> "object", v |-> <<>>]

\* String(x), for the values that reach it
JsToString(x) ==
    CASE x.t = "object" ->
            <<"[","o","b","j","e","c","t"," ","O","b","j","e","c","t","]">>
      [] x.t = "null" -> <<"n","u","l","l">>
      [] x.t = "undefined" -> <<"u","n","d","e","f","i","n","e","d">>
      [] OTHER -> x.v

\* !x
Falsy(x) ==
    \/ x.t \in {"null", "undefined"}
    \/ x.t = "string" /\ x.v = <<>>
    \/ x.t = "number" /\ x.v = <<"0">>

---------------------------------------------------------------------------
(* extractTextFragment, text-fragment-utils.js lines 117-194.              *)
(* options is [query, maxWords, minWords]; the empty query and the number  *)
(* 0 stand for every falsy value of the field, an absent field included.   *)

DefaultMaxWords == 10
DefaultMinWords == 3
ConciseWords == 6

\* options.maxWords || 10
maxWordsOf(opts) == IF opts.maxWords = 0 THEN DefaultMaxWords ELSE opts.maxWords
\* options.minWords || 3
minWordsOf(opts) == IF opts.minWords = 0 THEN DefaultMinWords ELSE opts.minWords

\* the guard without its typeof test
RejectSnippet_FalsyOnly(snip) == Falsy(snip)

\* if (!snippet || typeof snippet !== 'string') return ''
RejectSnippet(snip) == Falsy(snip) \/ snip.t # "string"

\* snippet.split(/\n+/)[0] || snippet
firstBlock(s) ==
    LET first == SplitRuns(s, {"\n"})[1]
    IN  IF first = <<>> THEN s ELSE first

\* cleaned.split(/[.!?]+/).map(s => s.trim()).filter(s => s.length > 0)
splitSentences(cleaned) ==
    LET pieces == SplitRuns(cleaned, Terminator)
    IN  FilterNonEmpty([i \in 1..Len(pieces) |-> Trim(pieces[i])])

\* cleaned.split(/\s+/).slice(0, maxWords).join(' ')
firstWords(cleaned, maxWords) ==
    Join(Slice0(SplitRuns(cleaned, Space), maxWords), <<" ">>)

\* a.includes(b)
Includes(a, b) == \E i \in 1..(Len(a) + 1) : Matches(a, i, b)

\* the inner loop without its break: 1 for every sentence keyword that
\* contains the query keyword or that it contains
keywordScore_EveryPartial(keyword, sentenceKeywords) ==
    IF keyword \in sentenceKeywords THEN 2
    ELSE Cardinality({w \in sentenceKeywords :
                        Includes(w, keyword) \/ Includes(keyword, w)})

\* what one query keyword adds: 2 for an exact match, else 1 for the first
\* sentence keyword that contains it or that it contains
keywordScore(keyword, sentenceKeywords) ==
    IF keyword \in sentenceKeywords THEN 2
    ELSE IF \E w \in sentenceKeywords : Includes(w, keyword) \/ Includes(keyword, w)
         THEN 1 ELSE 0

\* for (const keyword of queryKeywords) ...
RECURSIVE overlapScore(_, _)
overlapScore(queryKeywords, sentenceKeywords) ==
    IF queryKeywords = {} THEN 0
    ELSE LET k == CHOOSE x \in queryKeywords : TRUE
         IN  keywordScore(k, sentenceKeywords)
             + overlapScore(queryKeywords \ {k}, sentenceKeywords)

\* the callback of sentences.map(...), lines 142-173
scoreSentence(sentence, queryKeywords, maxWords, minWords) ==
    LET wordCount == Len(SplitRuns(sentence, Space))
    IN  IF wordCount < minWords \/ wordCount > maxWords
        THEN [sentence |-> sentence, score |-> -1, wordCount |-> wordCount]
        ELSE [sentence |-> sentence,
              score |-> overlapScore(queryKeywords, extractKeywords(sentence))
                        + (IF wordCount <= ConciseWords THEN 1 ELSE 0),
              wordCount |-> wordCount]

\* the comparator with the scores the other way round: lowest first
compareScored_Ascending(a, b) ==
    IF a.score # b.score THEN a.score - b.score ELSE a.wordCount - b.wordCount

\* the comparator without its tie-break: equal scores keep their order
compareScored_NoTieBreak(a, b) == b.score - a.score

\* the comparator of scoredSentences.sort(...), lines 176-179
compareScored(a, b) ==
    IF b.score # a.score THEN b.score - a.score ELSE a.wordCount - b.wordCount

\* an unstable sort: x goes before the elements it compares equal to
RECURSIVE insertSorted_BeforeEquals(_, _)
insertSorted_BeforeEquals(x, sorted) ==
    IF sorted = <<>> THEN <<x>>
    ELSE IF compareScored(Head(sorted), x) < 0
         THEN <<Head(sorted)>> \o insertSorted_BeforeEquals(x, Tail(sorted))
         ELSE <<x>> \o sorted

\* Array.prototype.sort is stable: x goes after every element that does not
\* compare greater than it
RECURSIVE insertSorted(_, _)
insertSorted(x, sorted) ==
    IF sorted = <<>> THEN <<x>>
    ELSE IF compareScored(Head(sorted), x) <= 0
         THEN <<Head(sorted)>> \o insertSorted(x, Tail(sorted))
         ELSE <<x>> \o sorted

RECURSIVE sortScored(_)
sortScored(a) ==
    IF a = <<>> THEN <<>>
    ELSE insertSorted(a[Len(a)], sortScored(Sub(a, 1, Len(a) - 1)))

\* the find that takes a disqualified sentence too
RECURSIVE findValid_AnyScore(_, _)
findValid_AnyScore(scored, i) ==
    IF i > Len(scored) THEN 0
    ELSE IF scored[i].score >= -1 THEN i ELSE findValid_AnyScore(scored, i + 1)

\* scoredSentences.find(s => s.score >= 0): its index, 0 for undefined
RECURSIVE findValid(_, _)
findValid(scored, i) ==
    IF i > Len(scored) THEN 0
    ELSE IF scored[i].score >= 0 THEN i ELSE findValid(scored, i + 1)

\* What a call did: whether it threw, what it returned, by which return
\* statement (path), and the values it computed on the way.
Returned(path, picked, pickedWords, cleaned, sentences, scored, maxWords, minWords) ==
    [threw |-> FALSE, ret |-> sanitizeFragment(picked), path |-> path,
     cleaned |-> cleaned, picked |-> picked, pickedWords |-> pickedWords,
     sentences |-> sentences, ranked |-> scored,
     maxWords |-> maxWords, minWords |-> minWords]

\* the return statements of lines 137-193
returnFragment(cleaned, sentences, scored, valid, maxWords, minWords) ==
    IF Len(sentences) = 0
    THEN Returned("no-sentence", firstWords(cleaned, maxWords), 0,
                  cleaned, sentences, scored, maxWords, minWords)
    ELSE IF Len(scored) > 0 /\ scored[1].score > 0
    THEN Returned("best", scored[1].sentence, scored[1].wordCount,
                  cleaned, sentences, scored, maxWords, minWords)
    ELSE IF valid > 0
    THEN Returned("valid", scored[valid].sentence, scored[valid].wordCount,
                  cleaned, sentences, scored, maxWords, minWords)
    ELSE Returned("truncate", firstWords(cleaned, maxWords), 0,
                  cleaned, sentences, scored, maxWords, minWords)

\* scoring and ranking, lines 142-179
rankSentences(cleaned, sentences, queryKeywords, maxWords, minWords) ==
    returnFragment(cleaned, sentences,
                   sortScored([i \in 1..Len(sentences) |->
                      scoreSentence(sentences[i], queryKeywords, maxWords, minWords)]),
                   findValid(sortScored([i \in 1..Len(sentences) |->
                      scoreSentence(sentences[i], queryKeywords, maxWords, minWords)]), 1),
                   maxWords, minWords)

\* lines 129-135 on the cleaned first block
splitAndRank(cleaned, opts) ==
    rankSentences(cleaned, splitSentences(cleaned), extractKeywords(opts.query),
                  maxWordsOf(opts), minWordsOf(opts))

\* the guard's return, line 123
Rejected(maxWords, minWords) ==
    [threw |-> FALSE, ret |-> <<>>, path |-> "guard",
     cleaned |-> <<>>, picked |-> <<>>, pickedWords |-> 0,
     sentences |-> <<>>, ranked |-> <<>>,
     maxWords |-> maxWords, minWords |-> minWords]

Extract(snip, opts) ==
    IF RejectSnippet(snip) THEN Rejected(maxWordsOf(opts), minWordsOf(opts))
    ELSE IF snip.t # "string"
    THEN [Rejected(maxWordsOf(opts), minWordsOf(opts))
            EXCEPT !.threw = TRUE, !.path = "TypeError"]
    ELSE splitAndRank(cleanSnippet(firstBlock(snip.v)), opts)

extractTextFragment(snip, opts) == Extract(snip, opts).ret

---------------------------------------------------------------------------
(* buildTextFragmentUrl, text-fragment-utils.js lines 202-216.             *)

\* the characters encodeURIComponent leaves as they are
Unreserved == Lower \cup Upper \cup Digit \cup {"-", "_", ".", "!", "~", "*", "'", "(", ")"}

\* the UTF-8 bytes of any other character, percent-encoded
PercentEncoded(c) ==
    CASE c = " " -> <<"%","2","0">>
      [] c = "\t" -> <<"%","0","9">>
      [] c = "\n" -> <<"%","0","A">>
      [] c = "\"" -> <<"%","2","2">>
      [] c = "#" -> <<"%","2","3">>
      [] c = "%" -> <<"%","2","5">>
      [] c = "&" -> <<"%","2","6">>
      [] c = "," -> <<"%","2","C">>
      [] c = "/" -> <<"%","2","F">>
      [] c = ":" -> <<"%","3","A">>
      [] c = ";" -> <<"%","3","B">>
      [] c = "<" -> <<"%","3","C">>
      [] c = "=" -> <<"%","3","D">>
      [] c = ">" -> <<"%","3","E">>
      [] c = "?" -> <<"%","3","F">>
      [] c = "[" -> <<"%","5","B">>
      [] c = "]" -> <<"%","5","D">>
      [] c = "U+0060" -> <<"%","6","0">>
      [] c = "U+00A0" -> <<"%","C","2","%","A","0">>
      [] c = "U+2018" -> <<"%","E","2","%","8","0","%","9","8">>
      [] c = "U+2019" -> <<"%","E","2","%","8","0","%","9","9">>
      [] c = "U+201C" -> <<"%","E","2","%","8","0","%","9","C">>
      [] c = "U+201D" -> <<"%","E","2","%","8","0","%","9","D">>
      [] c = "U+2026" -> <<"%","E","2","%","8","0","%","A","6">>

\* the encoding of one character
EncodeChar(c) == IF c \in Unreserved THEN <<c>> ELSE PercentEncoded(c)
EncodeChars(s) == Flat([i \in 1..Len(s) |-> EncodeChar(s[i])])

\* encodeURI in place of encodeURIComponent: the reserved characters
\* ; / ? : @ & = + $ , # stay as they are
EncodeChars_AsEncodeURI(s) ==
    Flat([i \in 1..Len(s) |->
            IF s[i] \in {";", "/", "?", ":", "@", "&", "=", "+", "$", ",", "#"}
            THEN <<s[i]>> ELSE EncodeChar(s[i])])
encodeURIComponent_AsEncodeURI(s) == EncodeChars_AsEncodeURI(Expand(s))

\* encodeURIComponent throws URIError on a lone surrogate
LoneSurrogate == {"U+D800"}
EncodeThrows(s) == \E i \in 1..Len(s) : s[i] \in LoneSurrogate
encodeURIComponent(s) == EncodeChars(Expand(s))

Directive == <<"#", ":", "~", ":", "t", "e", "x", "t", "=">>

\* s up to, not including, its last #
RECURSIVE BeforeLastHash(_)
BeforeLastHash(s) ==
    IF s = <<>> THEN <<>>
    ELSE IF s[Len(s)] = "#" THEN Sub(s, 1, Len(s) - 1)
    ELSE BeforeLastHash(Sub(s, 1, Len(s) - 1))

\* buildTextFragmentUrl cutting baseUrl at its last # instead of its first
buildTextFragmentUrl_LastHash(base, frag) ==
    IF Falsy(base) \/ Falsy(frag)
    THEN [threw |-> FALSE, val |-> base]
    ELSE IF base.t # "string" \/ EncodeThrows(JsToString(frag))
    THEN [threw |-> TRUE, val |-> JsUndefined]
    ELSE [threw |-> FALSE,
          val |-> JsString((IF "#" \in {base.v[i] : i \in 1..Len(base.v)}
                            THEN BeforeLastHash(base.v) ELSE base.v)
                           \o Directive \o EncodeChars(Expand(JsToString(frag))))]

\* buildTextFragmentUrl whose guard tests baseUrl only
buildTextFragmentUrl_FragmentUnchecked(base, frag) ==
    IF Falsy(base)
    THEN [threw |-> FALSE, val |-> base]
    ELSE IF base.t # "string" \/ EncodeThrows(JsToString(frag))
    THEN [threw |-> TRUE, val |-> JsUndefined]
    ELSE [threw |-> FALSE,
          val |-> JsString(SplitEach(base.v, "#")[1] \o Directive
                           \o EncodeChars(Expand(JsToString(frag))))]

\* The call: whether it threw and the value it returned.
buildTextFragmentUrl(base, frag) ==
    IF Falsy(base) \/ Falsy(frag)
    THEN [threw |-> FALSE, val |-> base]
    ELSE IF base.t # "string" \/ EncodeThrows(JsToString(frag))
    THEN [threw |-> TRUE, val |-> JsUndefined]
    ELSE LET urlWithoutHash == SplitEach(base.v, "#")[1]
             encoded == encodeURIComponent(JsToString(frag))
         IN  [threw |-> FALSE,
              val |-> JsString(urlWithoutHash \o Directive \o encoded)]

---------------------------------------------------------------------------
(* supportsTextFragments, text-fragment-utils.js lines 11-25.  The         *)
(* environment is the set of property names of document and the string     *)
(* navigator.userAgent.                                                    *)

\* the test without toLowerCase: ua = navigator.userAgent
supportsTextFragments_CaseSensitive(doc, agent) ==
    IF "fragmentDirective" \in doc THEN TRUE
    ELSE LET isChrome == /\ Includes(agent, <<"c","h","r","o","m","e">>)
                         /\ ~Includes(agent, <<"e","d","g">>)
             isEdge == Includes(agent, <<"e","d","g">>)
             isSafari == /\ Includes(agent, <<"s","a","f","a","r","i">>)
                         /\ ~Includes(agent, <<"c","h","r","o","m","e">>)
         IN  isChrome \/ isEdge \/ isSafari

\* the test without isEdge: only the two tests that carry an exclusion
supportsTextFragments_WithoutEdge(doc, agent) ==
    IF "fragmentDirective" \in doc THEN TRUE
    ELSE LET ua == toLowerCase(agent)
             isChrome == /\ Includes(ua, <<"c","h","r","o","m","e">>)
                         /\ ~Includes(ua, <<"e","d","g">>)
             isSafari == /\ Includes(ua, <<"s","a","f","a","r","i">>)
                         /\ ~Includes(ua, <<"c","h","r","o","m","e">>)
         IN  isChrome \/ isSafari

supportsTextFragments(doc, agent) ==
    IF "fragmentDirective" \in doc THEN TRUE
    ELSE LET ua == toLowerCase(agent)
             isChrome == /\ Includes(ua, <<"c","h","r","o","m","e">>)
                         /\ ~Includes(ua, <<"e","d","g">>)
             isEdge == Includes(ua, <<"e","d","g">>)
             isSafari == /\ Includes(ua, <<"s","a","f","a","r","i">>)
                         /\ ~Includes(ua, <<"c","h","r","o","m","e">>)
         IN  isChrome \/ isEdge \/ isSafari

---------------------------------------------------------------------------
(* The calls.  Each specification starts with the arguments of one entry   *)
(* point drawn from a bounded set, and its actions make the calls.         *)

MaxChunks == 3
MaxTextLen == 4
MaxUrlLen == 3
MaxFragLen == 2

SeqsUpTo(S, n) == UNION {[1..k -> S] : k \in 0..n}

\* the pieces snippets are put together from
SixWords == <<"t","h","e"," ","c","a","t"," ","i","s"," ","o","n"," ",
              "t","h","e"," ","m","a","t"," ">>
SnippetChunks == {<<"c","a","t">>, <<" ">>, <<".">>, <<"<">>, <<"\n">>,
                  <<"&amp;nbsp;">>, <<"&amp;lt;">>, <<"&#160;">>, SixWords}
SnippetStrings == {Join(cs, <<>>) : cs \in SeqsUpTo(SnippetChunks, MaxChunks)}
\* snippets of several paragraphs, one laid out as the testSnippet of
\* docs/files/QUICK_REFERENCE.md is: a newline first
Paragraphs ==
    {<<"\n">> \o SixWords \o <<"\n","c","a","t",".","\n">>,
     SixWords \o <<"\n","c","a","t",".","\n">>,
     <<"\n","\n","c","a","t",".","\n">> \o SixWords \o <<".">>,
     <<"c","a","t","\n","\n">> \o SixWords \o <<"\n","c","a","t">>}
\* two sentences with the same fragment, of which only the first has the
\* keyword cat
SameFragment == <<"c","a","t",".","c","<","a","t",".">>
SnippetInputs ==
    {JsString(s) : s \in SnippetStrings \cup Paragraphs \cup {SameFragment}}
    \cup {JsNull, JsUndefined, JsNumber("0"), JsNumber("7"), JsObject}
OptionInputs ==
    [query : {<<>>, <<"c","a","t">>}, maxWords : {0, 1, 2}, minWords : {0, 1, 2}]

TextChars == {"a", " ", ".", "<", "[", "1", "]", "&amp;lt;"}
RuleExample ==
    <<"R","u","l","e"," ","A"," ","[","1","2","]"," ","a","p","p","l","i",
      "e","s",".">>
\* ". . .", the examples with a reference marker, a marker that < and >
\* hide, and texts with typographic quotes, besides the short strings
TextInputs ==
    SeqsUpTo(TextChars, MaxTextLen)
    \cup {<<".", " ", ".", " ", ".">>, <<"A", " ", "[", "1", "2", "]", ".">>,
          RuleExample,
          <<"a", " ", "[", "<", "1", ">", "2", "]", " ", "b">>,
          <<"a", "[", "[", "1", "]", "]", "[", "2", "]", "b">>,
          <<"U+201C", "a", "U+201D">>, <<"a", "U+2019", "s">>,
          <<"U+2018", "a", "U+2019", " ", "\"", "b", "\"", " ", "'", "c", "'">>}

UrlChars == {"a", "#", "/"}
FragChars == {"a", "#", " ", "U+D800"}
UrlInputs ==
    {JsString(s) : s \in SeqsUpTo(UrlChars, MaxUrlLen)} \cup {JsNull, JsUndefined}
FragInputs ==
    {JsString(s) : s \in SeqsUpTo(FragChars, MaxFragLen)} \cup {JsNull, JsUndefined}

NoExtraction ==
    [threw |-> FALSE, ret |-> <<>>, path |-> "none", cleaned |-> <<>>,
     picked |-> <<>>, pickedWords |-> 0, sentences |-> <<>>,
     ranked |-> <<>>, maxWords |-> 0, minWords |-> 0]
NoOptions == [query |-> <<>>, maxWords |-> 0, minWords |-> 0]
NoResult == [threw |-> FALSE, val |-> JsUndefined]
NoKeywords == keywords = {}
NoVariant == lengthOnly = [ret |-> <<>>, path |-> "none"]
NoLink ==
    /\ source = [url |-> JsUndefined, link |-> JsUndefined, snippet |-> JsUndefined]
    /\ link = [href |-> <<>>, title |-> JsUndefined, pdfUrl |-> JsUndefined]
NoAgent ==
    /\ document = {} /\ userAgent = <<>>
    /\ supported = FALSE /\ supportedAgain = FALSE

\* extractTextFragment(snippet, options)
InitExtract ==
    /\ pc = "extract"
    /\ snippet \in SnippetInputs
    /\ options \in OptionInputs
    /\ extraction = NoExtraction
    /\ text = <<>> /\ once = <<>> /\ twice = <<>>
    /\ baseUrl = JsUndefined /\ fragmentText = JsUndefined /\ url = NoResult
    /\ fragmentText2 = JsUndefined /\ url2 = NoResult
    /\ NoKeywords /\ NoAgent
    /\ NoVariant /\ NoLink

ExtractTextFragment ==
    /\ pc = "extract"
    /\ extraction' = Extract(snippet, options)
    /\ pc' = "extracted"
    /\ UNCHANGED <<snippet, options, text, once, twice,
                   baseUrl, fragmentText, url, fragmentText2, url2,
                   keywordVars, agentVars,
                   variantVars, linkVars>>

NextExtract == ExtractTextFragment
SpecExtract == InitExtract /\ [][NextExtract]_vars

\* sanitizeFragment(text), and sanitizeFragment of its result
InitSanitize ==
    /\ pc = "sanitize"
    /\ text \in TextInputs
    /\ once = <<>> /\ twice = <<>>
    /\ snippet = JsUndefined /\ options = NoOptions /\ extraction = NoExtraction
    /\ baseUrl = JsUndefined /\ fragmentText = JsUndefined /\ url = NoResult
    /\ fragmentText2 = JsUndefined /\ url2 = NoResult
    /\ NoKeywords /\ NoAgent
    /\ NoVariant /\ NoLink

SanitizeFragment ==
    /\ pc = "sanitize"
    /\ once' = sanitizeFragment(text)
    /\ pc' = "sanitized"
    /\ UNCHANGED <<snippet, options, extraction, text, twice,
                   baseUrl, fragmentText, url, fragmentText2, url2,
                   keywordVars, agentVars,
                   variantVars, linkVars>>

SanitizeAgain ==
    /\ pc = "sanitized"
    /\ twice' = sanitizeFragment(once)
    /\ pc' = "resanitized"
    /\ UNCHANGED <<snippet, options, extraction, text, once,
                   baseUrl, fragmentText, url, fragmentText2, url2,
                   keywordVars, agentVars,
                   variantVars, linkVars>>

NextSanitize == SanitizeFragment \/ SanitizeAgain
SpecSanitize == InitSanitize /\ [][NextSanitize]_vars

\* buildTextFragmentUrl(baseUrl, fragmentText), and buildTextFragmentUrl of
\* its result with a second fragment
InitUrl ==
    /\ pc = "build"
    /\ baseUrl \in UrlInputs
    /\ fragmentText \in FragInputs
    /\ fragmentText2 \in {JsString(<<"a">>), JsString(<<"#">>)}
    /\ url = NoResult /\ url2 = NoResult
    /\ snippet = JsUndefined /\ options = NoOptions /\ extraction = NoExtraction
    /\ text = <<>> /\ once = <<>> /\ twice = <<>>
    /\ NoKeywords /\ NoAgent
    /\ NoVariant /\ NoLink

BuildTextFragmentUrl ==
    /\ pc = "build"
    /\ url' = buildTextFragmentUrl(baseUrl, fragmentText)
    /\ pc' = "built"
    /\ UNCHANGED <<snippet, options, extraction, text, once, twice,
                   baseUrl, fragmentText, fragmentText2, url2,
                   keywordVars, agentVars,
                   variantVars, linkVars>>

BuildAgain ==
    /\ pc = "built"
    /\ ~url.threw
    /\ url2' = buildTextFragmentUrl(url.val, fragmentText2)
    /\ pc' = "rebuilt"
    /\ UNCHANGED <<snippet, options, extraction, text, once, twice,
                   baseUrl, fragmentText, url, fragmentText2,
                   keywordVars, agentVars,
                   variantVars, linkVars>>

NextUrl == BuildTextFragmentUrl \/ BuildAgain
SpecUrl == InitUrl /\ [][NextUrl]_vars

\* The console experiment of the guides: extractTextFragment on a snippet,
\* then buildTextFragmentUrl on what it returned.

AlcoholSnippet ==
    <<"A","l","c","o","h","o","l"," ","p","r","o","d","u","c","t","s"," ",
      "m","u","s","t"," ","n","o","t"," ","b","e"," ","p","r","o","m","i",
      "n","e","n","t","l","y"," ","f","e","a","t","u","r","e","d","."," ",
      "H","o","w","e","v","e","r",","," ","i","n","c","i","d","e","n","t",
      "a","l"," ","b","a","c","k","g","r","o","u","n","d"," ","i","t","e",
      "m","s"," ","a","r","e"," ","a","c","c","e","p","t","a","b","l","e",
      ".">>

AlcoholSnippetTrailingDots ==
    <<"A","l","c","o","h","o","l"," ","p","r","o","d","u","c","t","s"," ",
      "m","u","s","t"," ","n","o","t"," ","b","e"," ","p","r","o","m","i",
      "n","e","n","t","l","y"," ","f","e","a","t","u","r","e","d","."," ",
      "H","o","w","e","v","e","r",","," ","i","n","c","i","d","e","n","t",
      "a","l"," ","b","a","c","k","g","r","o","u","n","d"," ","i","t","e",
      "m","s"," ","a","r","e"," ","a","c","c","e","p","t","a","b","l","e",
      ".",".",".">>

FirstSentence ==
    <<"A","l","c","o","h","o","l"," ","p","r","o","d","u","c","t","s"," ",
      "m","u","s","t"," ","n","o","t"," ","b","e"," ","p","r","o","m","i",
      "n","e","n","t","l","y"," ","f","e","a","t","u","r","e","d">>

SecondSentence ==
    <<"H","o","w","e","v","e","r",","," ","i","n","c","i","d","e","n","t",
      "a","l"," ","b","a","c","k","g","r","o","u","n","d"," ","i","t","e",
      "m","s"," ","a","r","e"," ","a","c","c","e","p","t","a","b","l","e">>

GuidePhrase ==
    <<"i","n","c","i","d","e","n","t","a","l"," ","b","a","c","k","g","r",
      "o","u","n","d"," ","i","t","e","m","s"," ","a","r","e"," ","a","c",
      "c","e","p","t","a","b","l","e">>

WineQuery ==
    <<"w","i","n","e"," ","b","o","t","t","l","e"," ","b","a","c","k","g",
      "r","o","u","n","d">>

GuideQuery ==
    <<"I","s"," ","a"," ","w","i","n","e"," ","b","o","t","t","l","e"," ",
      "i","n"," ","t","h","e"," ","b","a","c","k","g","r","o","u","n","d",
      " ","a","l","l","o","w","e","d","?">>

PolicyUrl ==
    <<"h","t","t","p","s",":","/","/","g",".","c","o","m","/","p","o","l",
      "i","c","y">>

PolicyUrlWithAnchor ==
    <<"h","t","t","p","s",":","/","/","g",".","c","o","m","/","p","o","l",
      "i","c","y","#","r","u","l","e","s">>

GuidelinesUrl ==
    <<"h","t","t","p","s",":","/","/","g","u","i","d","e","l","i","n","e",
      "s",".","c","o","m">>

PolicyHighlightUrl ==
    <<"h","t","t","p","s",":","/","/","g",".","c","o","m","/","p","o","l",
      "i","c","y","#",":","~",":","t","e","x","t","=","H","o","w","e","v",
      "e","r","%","2","C","%","2","0","i","n","c","i","d","e","n","t","a",
      "l","%","2","0","b","a","c","k","g","r","o","u","n","d","%","2","0",
      "i","t","e","m","s","%","2","0","a","r","e","%","2","0","a","c","c",
      "e","p","t","a","b","l","e">>

GuideHighlightUrl ==
    <<"h","t","t","p","s",":","/","/","g","u","i","d","e","l","i","n","e",
      "s",".","c","o","m","#",":","~",":","t","e","x","t","=","i","n","c",
      "i","d","e","n","t","a","l","%","2","0","b","a","c","k","g","r","o",
      "u","n","d","%","2","0","i","t","e","m","s","%","2","0","a","r","e",
      "%","2","0","a","c","c","e","p","t","a","b","l","e">>

\* testSnippet, testQuery and testUrl of docs/files/QUICK_REFERENCE.md
WeaponsSnippet ==
    <<"\n","*","*","W","e","a","p","o","n","s"," ","P","o","l","i","c","y",
      "*","*",":"," ","T","o","y"," ","w","e","a","p","o","n","s"," ","i",
      "n","c","l","u","d","i","n","g"," ","t","o","y"," ","g","u","n","s",
      ","," ","w","a","t","e","r"," ","g","u","n","s",","," ","a","n","d",
      " ","f","o","a","m"," ","s","w","o","r","d","s"," ","\n","a","r","e",
      " ","c","o","n","s","i","d","e","r","e","d"," ","w","e","a","p","o",
      "n","s"," ","f","o","r"," ","m","o","d","e","r","a","t","i","o","n",
      " ","p","u","r","p","o","s","e","s","."," ","H","o","w","e","v","e",
      "r",","," ","h","i","s","t","o","r","i","c","a","l"," ","a","r","t",
      "i","f","a","c","t","s"," ","\n","d","i","s","p","l","a","y","e","d",
      " ","i","n"," ","m","u","s","e","u","m","s"," ","m","a","y"," ","b",
      "e"," ","a","c","c","e","p","t","a","b","l","e"," ","w","i","t","h",
      " ","p","r","o","p","e","r"," ","c","o","n","t","e","x","t",".","\n">>

WeaponsFirstSentence ==
    <<"W","e","a","p","o","n","s"," ","P","o","l","i","c","y",":"," ","T",
      "o","y"," ","w","e","a","p","o","n","s"," ","i","n","c","l","u","d",
      "i","n","g"," ","t","o","y"," ","g","u","n","s",","," ","w","a","t",
      "e","r"," ","g","u","n","s",","," ","a","n","d"," ","f","o","a","m",
      " ","s","w","o","r","d","s"," ","a","r","e"," ","c","o","n","s","i",
      "d","e","r","e","d"," ","w","e","a","p","o","n","s"," ","f","o","r",
      " ","m","o","d","e","r","a","t","i","o","n"," ","p","u","r","p","o",
      "s","e","s">>

WeaponsSecondSentence ==
    <<"H","o","w","e","v","e","r",","," ","h","i","s","t","o","r","i","c",
      "a","l"," ","a","r","t","i","f","a","c","t","s"," ","d","i","s","p",
      "l","a","y","e","d"," ","i","n"," ","m","u","s","e","u","m","s"," ",
      "m","a","y"," ","b","e"," ","a","c","c","e","p","t","a","b","l","e",
      " ","w","i","t","h"," ","p","r","o","p","e","r"," ","c","o","n","t",
      "e","x","t">>

WeaponsQuery ==
    <<"t","o","y"," ","g","u","n","s"," ","m","u","s","e","u","m">>

WeaponsUrl ==
    <<"h","t","t","p","s",":","/","/","g","u","i","d","e","l","i","n","e",
      "s",".","c","o","m","/","w","e","a","p","o","n","s">>

\* a query whose one keyword is inside two words of the first sentence
PrefixQuery == <<"p","r","o">>

ExperimentSnippets ==
    {JsString(AlcoholSnippet), JsString(AlcoholSnippetTrailingDots),
     JsString(WeaponsSnippet)}
ExperimentOptions ==
    [query : {<<>>, WineQuery, GuideQuery, WeaponsQuery, PrefixQuery},
     maxWords : {0, 6, 10, 40}, minWords : {0, 3}]
ExperimentUrls ==
    {JsString(PolicyUrl), JsString(PolicyUrlWithAnchor), JsString(GuidelinesUrl),
     JsString(WeaponsUrl)}

InitExperiment ==
    /\ pc = "experiment"
    /\ snippet \in ExperimentSnippets
    /\ options \in ExperimentOptions
    /\ baseUrl \in ExperimentUrls
    /\ extraction = NoExtraction
    /\ fragmentText = JsUndefined /\ url = NoResult
    /\ fragmentText2 = JsUndefined /\ url2 = NoResult
    /\ text = <<>> /\ once = <<>> /\ twice = <<>>
    /\ NoKeywords /\ NoAgent
    /\ NoVariant /\ NoLink

\* const fragment = extractTextFragment(snippet, { query, maxWords })
ExperimentExtract ==
    /\ pc = "experiment"
    /\ extraction' = Extract(snippet, options)
    /\ pc' = "fragment"
    /\ UNCHANGED <<snippet, options, text, once, twice,
                   baseUrl, fragmentText, url, fragmentText2, url2,
                   keywordVars, agentVars,
                   variantVars, linkVars>>

\* const fullUrl = buildTextFragmentUrl(testUrl, fragment)
ExperimentBuild ==
    /\ pc = "fragment"
    /\ ~extraction.threw
    /\ fragmentText' = JsString(extraction.ret)
    /\ url' = buildTextFragmentUrl(baseUrl, JsString(extraction.ret))
    /\ pc' = "fullUrl"
    /\ UNCHANGED <<snippet, options, extraction, text, once, twice,
                   baseUrl, fragmentText2, url2, keywordVars, agentVars,
                   variantVars, linkVars>>

NextExperiment == ExperimentExtract \/ ExperimentBuild
SpecExperiment == InitExperiment /\ [][NextExperiment]_vars

\* extractKeywords(text); the empty text stands for every falsy argument
MaxKeywordWords == 3
TheCatIsOnTheMat ==
    <<"t","h","e"," ","c","a","t"," ","i","s"," ","o","n"," ",
      "t","h","e"," ","m","a","t">>
KeywordWords ==
    {<<"t","h","e">>, <<"C","a","t">>, <<"o","n">>, <<"m","a","t","!">>,
     <<"a","_","b">>, <<"&amp;lt;">>, <<"x","-","r","a","y","s">>}
KeywordInputs ==
    {Join(ws, <<" ">>) : ws \in SeqsUpTo(KeywordWords, MaxKeywordWords)}
    \cup {TheCatIsOnTheMat}

InitKeywords ==
    /\ pc = "keywords"
    /\ text \in KeywordInputs
    /\ keywords = {}
    /\ once = <<>> /\ twice = <<>>
    /\ snippet = JsUndefined /\ options = NoOptions /\ extraction = NoExtraction
    /\ baseUrl = JsUndefined /\ fragmentText = JsUndefined /\ url = NoResult
    /\ fragmentText2 = JsUndefined /\ url2 = NoResult
    /\ NoAgent
    /\ NoVariant /\ NoLink

ExtractKeywords ==
    /\ pc = "keywords"
    /\ keywords' = extractKeywords(text)
    /\ pc' = "keyworded"
    /\ UNCHANGED <<snippet, options, extraction, text, once, twice,
                   baseUrl, fragmentText, url, fragmentText2, url2, agentVars,
                   variantVars, linkVars>>

NextKeywords == ExtractKeywords
SpecKeywords == InitKeywords /\ [][NextKeywords]_vars

\* supportsTextFragments(), twice in the same environment
MaxAgentProducts == 2
AgentProducts ==
    {<<"M","o","z","i","l","l","a">>, <<"C","h","r","o","m","e">>,
     <<"S","a","f","a","r","i">>, <<"E","d","g">>, <<"E","d","g","e">>,
     <<"F","i","r","e","f","o","x">>, <<"G","e","c","k","o">>}
AgentInputs ==
    {Join(ps, <<" ">>) : ps \in SeqsUpTo(AgentProducts, MaxAgentProducts)}
DocumentInputs == {{}, {"fragmentDirective"}}

InitSupports ==
    /\ pc = "supports"
    /\ document \in DocumentInputs
    /\ userAgent \in AgentInputs
    /\ supported = FALSE /\ supportedAgain = FALSE
    /\ text = <<>> /\ once = <<>> /\ twice = <<>>
    /\ snippet = JsUndefined /\ options = NoOptions /\ extraction = NoExtraction
    /\ baseUrl = JsUndefined /\ fragmentText = JsUndefined /\ url = NoResult
    /\ fragmentText2 = JsUndefined /\ url2 = NoResult
    /\ NoKeywords
    /\ NoVariant /\ NoLink

SupportsTextFragments ==
    /\ pc = "supports"
    /\ supported' = supportsTextFragments(document, userAgent)
    /\ pc' = "answered"
    /\ UNCHANGED <<snippet, options, extraction, text, once, twice,
                   baseUrl, fragmentText, url, fragmentText2, url2,
                   keywordVars, document, userAgent, supportedAgain,
                   variantVars, linkVars>>

SupportsAgain ==
    /\ pc = "answered"
    /\ supportedAgain' = supportsTextFragments(document, userAgent)
    /\ pc' = "answeredAgain"
    /\ UNCHANGED <<snippet, options, extraction, text, once, twice,
                   baseUrl, fragmentText, url, fragmentText2, url2,
                   keywordVars, document, userAgent, supported,
                   variantVars, linkVars>>

NextSupports == SupportsTextFragments \/ SupportsAgain
SpecSupports == InitSupports /\ [][NextSupports]_vars

---------------------------------------------------------------------------
(* The length-only variant of the same file, text-fragment-utils.js lines  *)
(* 228-347: sanitizeFragment (259-266) and extractTextFragment (276-315).  *)
(* It has no query, no cleanSnippet and no ranking.                        *)

LengthOnlyMaxWords == 40
LengthOnlyMinWords == 15

\* sanitizeFragment of lines 259-266; the class of the third replace holds
\* the apostrophe and the slash
sanitizeFragmentLengthOnly(t) ==
    LET s1 == ReplaceChars(t, {"<", ">"}, <<>>)
        s2 == ReplaceChars(s1, {"\""}, <<"\"">>)
        s3 == ReplaceChars(s2, {"'", "/"}, <<"'">>)
        s4 == ReplaceRuns(s3, Space, 1, <<" ">>)
    IN  Trim(s4)

\* the replace chain of lines 289-295 on snippet.split(/\n+/)[0]
cleanLengthOnly(firstParagraph) ==
    LET c1 == Unwrap(firstParagraph, <<"*", "*">>, <<"*", "*">>)
        c2 == Unwrap(c1, <<"_", "_">>, <<"_", "_">>)
        c3 == UnwrapLinks(c2)
        c4 == Unwrap(c3, <<"U+0060">>, <<"U+0060">>)
        c5 == ReplaceRuns(c4, Space, 1, <<" ">>)
    IN  Trim(c5)

\* cleaned.match(/^[^.!?]+[.!?]/): the index of the terminator that ends
\* the match, 0 for null
sentenceMatch(cleaned) ==
    LET j == First({k \in 1..Len(cleaned) : cleaned[k] \in Terminator}, 0)
    IN  IF j >= 2 THEN j ELSE 0

\* the two returns of lines 298-314, for the match that ends at j
returnLengthOnly(cleaned, j, maxWords, minWords) ==
    IF /\ j > 0
       /\ Len(SplitRuns(Trim(Sub(cleaned, 1, j)), Space)) >= minWords
       /\ Len(SplitRuns(Trim(Sub(cleaned, 1, j)), Space)) <= maxWords
    THEN [ret |-> sanitizeFragmentLengthOnly(Trim(Sub(cleaned, 1, j))),
          path |-> "sentence"]
    ELSE [ret |-> sanitizeFragmentLengthOnly(
                      Join(Slice0(SplitRuns(cleaned, Space), maxWords), <<" ">>)),
          path |-> "truncate"]

matchAndReturn(cleaned, maxWords, minWords) ==
    returnLengthOnly(cleaned, sentenceMatch(cleaned), maxWords, minWords)

\* extractTextFragment of lines 276-315
ExtractLengthOnly(snip, opts) ==
    IF Falsy(snip) \/ snip.t # "string" THEN [ret |-> <<>>, path |-> "guard"]
    ELSE matchAndReturn(cleanLengthOnly(SplitRuns(snip.v, {"\n"})[1]),
                        IF opts.maxWords = 0 THEN LengthOnlyMaxWords
                        ELSE opts.maxWords,
                        IF opts.minWords = 0 THEN LengthOnlyMinWords
                        ELSE opts.minWords)

\* The two variants on the same arguments.
InitVariants ==
    /\ pc = "variants"
    /\ snippet \in SnippetInputs
    /\ options \in OptionInputs
    /\ extraction = NoExtraction
    /\ text = <<>> /\ once = <<>> /\ twice = <<>>
    /\ baseUrl = JsUndefined /\ fragmentText = JsUndefined /\ url = NoResult
    /\ fragmentText2 = JsUndefined /\ url2 = NoResult
    /\ NoKeywords /\ NoAgent
    /\ NoVariant /\ NoLink

\* extractTextFragment(snippet, options) of lines 117-194
ExtractQueryAware ==
    /\ pc = "variants"
    /\ extraction' = Extract(snippet, options)
    /\ pc' = "queryAware"
    /\ UNCHANGED <<snippet, options, text, once, twice,
                   baseUrl, fragmentText, url, fragmentText2, url2,
                   keywordVars, agentVars, variantVars, linkVars>>

\* extractTextFragment(snippet, options) of lines 276-315
ExtractLengthOnlyVariant ==
    /\ pc = "queryAware"
    /\ lengthOnly' = ExtractLengthOnly(snippet, options)
    /\ pc' = "bothVariants"
    /\ UNCHANGED <<snippet, options, extraction, text, once, twice,
                   baseUrl, fragmentText, url, fragmentText2, url2,
                   keywordVars, agentVars, linkVars>>

NextVariants == ExtractQueryAware \/ ExtractLengthOnlyVariant
SpecVariants == InitVariants /\ [][NextVariants]_vars

---------------------------------------------------------------------------
(* renderSourceLink, response-renderer.js lines 446-492: the href and the  *)
(* title of the a element it builds for one source.  source is            *)
(* [url, link, snippet], each a JS value.                                  *)

TooltipLength == 150
CallSiteMaxWords == 40

\* source.url || source.link || '#'
sourceUrl(src) ==
    IF ~Falsy(src.url) THEN src.url.v
    ELSE IF ~Falsy(src.link) THEN src.link.v
    ELSE <<"#">>

PdfSuffix ==
    <<".","p","d","f">>
GcsConsoleHost ==
    <<"s","t","o","r","a","g","e",".","c","l","o","u","d",".","g","o","o",
      "g","l","e",".","c","o","m">>
GcsApiHost ==
    <<"s","t","o","r","a","g","e",".","g","o","o","g","l","e","a","p","i",
      "s",".","c","o","m">>

\* url.includes('.pdf') || url.includes('storage.cloud.google.com')
\*     || url.includes('storage.googleapis.com')
isPDF(u) ==
    Includes(u, PdfSuffix) \/ Includes(u, GcsConsoleHost) \/ Includes(u, GcsApiHost)

\* the test without its third conjunct: an anchor of the url is overridden
shouldHighlight_AnchorIgnored(u, snip, doc, agent) ==
    /\ ~Falsy(snip)
    /\ Len(Trim(Expand(snip.v))) > 0
    /\ supportsTextFragments(doc, agent)

\* source.snippet && source.snippet.trim().length > 0 && !url.includes('#')
\*     && supportsTextFragments()
shouldHighlight(u, snip, doc, agent) ==
    /\ ~Falsy(snip)
    /\ Len(Trim(Expand(snip.v))) > 0
    /\ ~Includes(u, <<"#">>)
    /\ supportsTextFragments(doc, agent)

\* { maxWords: 40 }
callSiteOptions == [query |-> <<>>, maxWords |-> CallSiteMaxWords, minWords |-> 0]

\* `Snippet: ${snippet.substring(0, 150)}${snippet.length > 150 ? '...' : ''}`
tooltip(s) ==
    <<"S","n","i","p","p","e","t",":"," ">>
    \o Sub(s, 1, IF Len(s) < TooltipLength THEN Len(s) ELSE TooltipLength)
    \o (IF Len(s) > TooltipLength THEN <<".", ".", ".">> ELSE <<>>)

\* lines 474-480: the href for the fragment extractTextFragment returned
highlightHref(u, fragment) ==
    IF fragment # <<>>
    THEN buildTextFragmentUrl(JsString(u), JsString(fragment)).val.v
    ELSE u

\* the a element for the url u
renderLink(u, snip, doc, agent) ==
    IF isPDF(u)
    THEN [href |-> <<"#">>, title |-> JsUndefined, pdfUrl |-> JsString(u)]
    ELSE IF shouldHighlight(u, snip, doc, agent)
    THEN [href |-> highlightHref(u, extractTextFragment(snip, callSiteOptions)),
          title |-> JsUndefined, pdfUrl |-> JsUndefined]
    ELSE [href |-> u,
          title |-> IF ~supportsTextFragments(doc, agent) /\ ~Falsy(snip)
                    THEN JsString(tooltip(Expand(snip.v))) ELSE JsUndefined,
          pdfUrl |-> JsUndefined]

renderSourceLink(src, doc, agent) ==
    renderLink(sourceUrl(src), src.snippet, doc, agent)

\* the sources and the runtimes
PageUrl == <<"g",".","c","o","m","/","p","o","l","i","c","y">>
PageUrlWithAnchor == <<"g",".","c","o","m","/","p","o","l","i","c","y","#","r","u","l","e",
      "s">>
PdfUrl == <<"g",".","c","o","m","/","p","o","l","i","c","y",".","p","d","f">>
BucketUrl == <<"s","t","o","r","a","g","e",".","g","o","o","g","l","e","a","p","i",
      "s",".","c","o","m","/","b","/","d","o","c">>
ConsoleUrl == <<"s","t","o","r","a","g","e",".","c","l","o","u","d",".","g","o","o",
      "g","l","e",".","c","o","m","/","b","/","d","o","c">>
LinkUrl == <<"g",".","c","o","m","/","l","i","n","k">>
\* more than 150 characters
LongSnippet ==
    SixWords \o SixWords \o SixWords \o SixWords \o SixWords \o SixWords
    \o SixWords \o <<"c", "a", "t", ".">>
SourceSnippets ==
    {JsUndefined, JsNull, JsString(<<>>), JsString(<<" ">>),
     JsString(<<"c","a","t",".">>), JsString(<<"<">>),
     JsString(<<"&#160;","c","a","t">>),
     JsString(SixWords \o <<"c","a","t",".">>),
     JsString(<<"c","a","t","."," ">> \o SixWords \o <<"c","a","t",".">>),
     JsString(LongSnippet), JsString(AlcoholSnippet), JsString(WeaponsSnippet)}
SourceInputs ==
    [url : {JsUndefined, JsString(PageUrl), JsString(PageUrlWithAnchor),
            JsString(PdfUrl), JsString(BucketUrl), JsString(ConsoleUrl)},
     link : {JsUndefined, JsString(LinkUrl)},
     snippet : SourceSnippets]
RenderAgents ==
    {<<>>, <<"C","h","r","o","m","e">>, <<"F","i","r","e","f","o","x">>}

InitRender ==
    /\ pc = "render"
    /\ source \in SourceInputs
    /\ document \in DocumentInputs
    /\ userAgent \in RenderAgents
    /\ link = [href |-> <<>>, title |-> JsUndefined, pdfUrl |-> JsUndefined]
    /\ supported = FALSE /\ supportedAgain = FALSE
    /\ snippet = JsUndefined /\ options = NoOptions /\ extraction = NoExtraction
    /\ text = <<>> /\ once = <<>> /\ twice = <<>>
    /\ baseUrl = JsUndefined /\ fragmentText = JsUndefined /\ url = NoResult
    /\ fragmentText2 = JsUndefined /\ url2 = NoResult
    /\ NoKeywords /\ NoVariant

\* renderSourceLink(source, index); when it calls extractTextFragment the
\* arguments and what the call did are kept
RenderSourceLink ==
    /\ pc = "render"
    /\ link' = renderSourceLink(source, document, userAgent)
    /\ IF /\ ~isPDF(sourceUrl(source))
          /\ shouldHighlight(sourceUrl(source), source.snippet, document, userAgent)
       THEN /\ snippet' = source.snippet
            /\ options' = callSiteOptions
            /\ extraction' = Extract(source.snippet, callSiteOptions)
       ELSE UNCHANGED <<snippet, options, extraction>>
    /\ pc' = "rendered"
    /\ UNCHANGED <<source, text, once, twice,
                   baseUrl, fragmentText, url, fragmentText2, url2,
                   keywordVars, agentVars, variantVars>>

NextRender == RenderSourceLink
SpecRender == InitRender /\ [][NextRender]_vars

Init ==
    InitExtract \/ InitSanitize \/ InitUrl \/ InitExperiment \/ InitKeywords
    \/ InitSupports \/ InitVariants \/ InitRender
Next ==
    NextExtract \/ NextSanitize \/ NextUrl \/ NextExperiment \/ NextKeywords
    \/ NextSupports \/ NextVariants \/ NextRender
Spec == Init /\ [][Next]_vars

---------------------------------------------------------------------------
(* The claims.                                                             *)

\* whether s has a character of set
Has(s, set) == \E i \in 1..Len(s) : s[i] \in set
\* how many times c occurs in s
Count(s, c) == Cardinality({i \in 1..Len(s) : s[i] = c})
\* the number of whitespace-delimited words of s
WordsIn(s) == Len(FilterNonEmpty(SplitRuns(s, Space)))
\* s up to, not including, its first c
RECURSIVE PrefixBefore(_, _)
PrefixBefore(s, c) ==
    IF s = <<>> \/ Head(s) = c THEN <<>>
    ELSE <<Head(s)>> \o PrefixBefore(Tail(s), c)

NonEmptyString(x) == x.t = "string" /\ x.v # <<>>
Extracted == pc = "extracted"

\* C1: a non-empty string snippet with at least one of . ! ? yields a
\* non-empty fragment, whatever the query.
C1_NonEmptyForTerminatedSnippet ==
    (Extracted /\ NonEmptyString(snippet) /\ Has(snippet.v, Terminator))
        => extraction.ret # <<>>

\* C2: whenever the cleaned first block is non-empty, the call does not
\* throw and returns a non-empty fragment.
C2_NonEmptyForNonEmptyCleaned ==
    (Extracted /\ extraction.cleaned # <<>>)
        => (~extraction.threw /\ extraction.ret # <<>>)

\* C3: the returned fragment contains neither < nor >, for every snippet,
\* query, maxWords and minWords.
C3_NoAngleBrackets ==
    Extracted => ~Has(extraction.ret, {"<", ">"})

\* C3 happens: the text handed to sanitizeFragment had a < and an entity
\* that decodes to <, and something of it was returned.
C3_Witness ==
    /\ Extracted
    /\ Has(extraction.picked, {"<"})
    /\ Has(extraction.picked, {"&lt;"})
    /\ extraction.ret # <<>>

\* C4: a fragment returned by one of the two ranked branches has between
\* minWords and maxWords words.
C4_RankedFragmentWithinBounds ==
    (Extracted /\ extraction.path \in {"best", "valid"})
        => /\ WordsIn(extraction.ret) >= extraction.minWords
           /\ WordsIn(extraction.ret) <= extraction.maxWords

\* C5: the returned fragment never has more than maxWords words, the
\* truncation branch included.
C5_AtMostMaxWords ==
    Extracted => WordsIn(extraction.ret) <= extraction.maxWords

\* C6: sanitizeFragment(sanitizeFragment(s)) = sanitizeFragment(s).
C6_SanitizeIdempotent ==
    pc = "resanitized" => twice = once

\* C7: a snippet that is not a non-empty string yields the empty string and
\* no exception, for every query.
C7_EmptyForUnusableSnippet ==
    (Extracted /\ ~NonEmptyString(snippet))
        => (~extraction.threw /\ extraction.ret = <<>>)

\* C7 happens: the snippet was a truthy value that is no string, and a
\* query was given.
C7_Witness ==
    /\ Extracted
    /\ snippet \in {JsNumber("7"), JsObject}
    /\ options.query # <<>>
    /\ extraction.ret = <<>>

Built == pc \in {"built", "rebuilt"}

SingleDirective(x) ==
    /\ x.t = "string"
    /\ Count(x.v, "#") = 1
    /\ \E i \in 1..Len(x.v) : x.v[i] = "#" /\ Matches(x.v, i, Directive)

\* C9 as stated: for every baseUrl and every non-empty fragmentText the
\* returned URL has exactly one #, followed by :~:text=, and so has the
\* URL returned when the function is applied to its own output.
C9_SingleDirectiveForEveryBaseUrl ==
    /\ (Built /\ baseUrl.t = "string" /\ NonEmptyString(fragmentText) /\ ~url.threw)
           => SingleDirective(url.val)
    /\ (pc = "rebuilt" /\ baseUrl.t = "string" /\ NonEmptyString(fragmentText)
        /\ ~url2.threw)
           => SingleDirective(url2.val)

\* C9 amended: the same for every non-empty baseUrl.
C9_SingleDirective ==
    /\ (Built /\ NonEmptyString(baseUrl) /\ NonEmptyString(fragmentText)
        /\ ~url.threw)
           => SingleDirective(url.val)
    /\ (pc = "rebuilt" /\ NonEmptyString(baseUrl) /\ NonEmptyString(fragmentText)
        /\ ~url2.threw)
           => SingleDirective(url2.val)

\* C9 happens: a base URL with several #, fragment texts with a #, and the
\* function applied to its own output.
C9_Witness ==
    /\ pc = "rebuilt"
    /\ NonEmptyString(baseUrl) /\ Count(baseUrl.v, "#") >= 2
    /\ NonEmptyString(fragmentText) /\ Has(fragmentText.v, {"#"})
    /\ Has(fragmentText2.v, {"#"})
    /\ SingleDirective(url.val) /\ SingleDirective(url2.val)

\* C10: if baseUrl or fragmentText is falsy the call returns baseUrl itself
\* and throws nothing.
C10_FalsyArgumentReturnsBaseUrl ==
    (Built /\ (Falsy(baseUrl) \/ Falsy(fragmentText)))
        => (~url.threw /\ url.val = baseUrl)

\* C10 happens: the fragment was empty and the URL had a #.
C10_Witness ==
    /\ pc = "built"
    /\ fragmentText = JsString(<<>>)
    /\ NonEmptyString(baseUrl) /\ Has(baseUrl.v, {"#"})
    /\ url.val = baseUrl


Experimented == pc = "fullUrl"
\* the score the call gives sentence s under the options in force
ScoreOf(s) ==
    scoreSentence(s, extractKeywords(options.query),
                  maxWordsOf(options), minWordsOf(options)).score

\* C11: for the two-sentence alcohol snippet, query "wine bottle
\* background", maxWords 10 and minWords 3, the second sentence is selected
\* because it scores higher, and the URL built on https://g.com/policy is
\* https://g.com/policy#:~:text=However%2C%20incidental%20background%20items%20are%20acceptable
C11_SecondSentenceHighlighted ==
    (/\ Experimented
     /\ snippet = JsString(AlcoholSnippet)
     /\ options = [query |-> WineQuery, maxWords |-> 10, minWords |-> 3]
     /\ baseUrl = JsString(PolicyUrl))
        => /\ extraction.sentences = <<FirstSentence, SecondSentence>>
           /\ ScoreOf(SecondSentence) > ScoreOf(FirstSentence)
           /\ <<"b","a","c","k","g","r","o","u","n","d">>
                 \in extractKeywords(WineQuery) \cap extractKeywords(SecondSentence)
           /\ extraction.picked = SecondSentence
           /\ extraction.ret = SecondSentence
           /\ url = [threw |-> FALSE, val |-> JsString(PolicyHighlightUrl)]

\* C11 happens: the experiment ran on exactly these arguments.
C11_Witness ==
    /\ Experimented
    /\ snippet = JsString(AlcoholSnippet)
    /\ options = [query |-> WineQuery, maxWords |-> 10, minWords |-> 3]
    /\ baseUrl = JsString(PolicyUrl)
    /\ extraction.path = "best"

\* C12: for the query "Is a wine bottle in the background allowed?" and the
\* alcohol snippet ending in "...", the fragment is the phrase "incidental
\* background items are acceptable" and the URL built on
\* https://guidelines.com is
\* https://guidelines.com#:~:text=incidental%20background%20items%20are%20acceptable
C12_GuidePhraseHighlighted ==
    (/\ Experimented
     /\ snippet = JsString(AlcoholSnippetTrailingDots)
     /\ options.query = GuideQuery
     /\ options.maxWords \in {0, 10} /\ options.minWords \in {0, 3}
     /\ baseUrl = JsString(GuidelinesUrl))
        => /\ extraction.ret = GuidePhrase
           /\ url = [threw |-> FALSE, val |-> JsString(GuideHighlightUrl)]

\* the ranked sentences that are within [minWords, maxWords]
InBounds(ranked) == {k \in 1..Len(ranked) : ranked[k].score >= 0}
\* the words of s, as the reader counts them: its maximal runs of
\* characters that are not whitespace
WordsOf(s) == FilterNonEmpty(SplitRuns(s, Space))

\* C13: of two sentences within [minWords, maxWords] with equal score the
\* one with fewer words is ranked ahead, and the call returns the sanitized
\* top-scoring sentence with the fewest words.
C13_ShorterSentenceWinsTie ==
    Extracted =>
        LET r == extraction.ranked
        IN  /\ \A i \in InBounds(r) : \A j \in InBounds(r) :
                 (r[i].score = r[j].score /\ r[i].wordCount < r[j].wordCount)
                     => i < j
            /\ InBounds(r) # {} =>
                 \E k \in InBounds(r) :
                     /\ \A m \in InBounds(r) :
                          \/ r[m].score < r[k].score
                          \/ /\ r[m].score = r[k].score
                             /\ r[k].wordCount <= r[m].wordCount
                     /\ extraction.picked = r[k].sentence
                     /\ extraction.ret = sanitizeFragment(r[k].sentence)

\* C13 happens: two sentences share the top score, the longer one comes
\* first in the snippet, and the shorter one was returned.
C13_Witness ==
    /\ Extracted
    /\ Len(extraction.sentences) = 2
    /\ ScoreOf(extraction.sentences[1]) = ScoreOf(extraction.sentences[2])
    /\ ScoreOf(extraction.sentences[1]) > 0
    /\ Len(WordsOf(extraction.sentences[1])) > Len(WordsOf(extraction.sentences[2]))
    /\ extraction.ret = sanitizeFragment(extraction.sentences[2])
    /\ extraction.ret # sanitizeFragment(extraction.sentences[1])

\* C14: with an empty query, a snippet without . ! ? yields
\* sanitizeFragment of the first maxWords words of the cleaned block,
\* whatever the number of words of the block.
C14_FirstWordsWithoutTerminator ==
    (/\ Extracted
     /\ NonEmptyString(snippet)
     /\ options.query = <<>>
     /\ ~Has(snippet.v, Terminator))
        => extraction.ret =
             sanitizeFragment(Join(Slice0(WordsOf(extraction.cleaned),
                                          extraction.maxWords), <<" ">>))

\* the paragraphs of s: its non-empty newline-delimited blocks
Blocks(s) == FilterNonEmpty(SplitRuns(s, LineTerminator))

\* C15: for a snippet of several paragraphs only the first non-empty block
\* counts: the candidate sentences and the fragment are those of that block
\* alone, also when the snippet begins with newlines.
C15_OnlyFirstNonEmptyBlock ==
    (/\ Extracted
     /\ NonEmptyString(snippet)
     /\ Len(Blocks(snippet.v)) >= 2)
        => /\ extraction.sentences
                = Extract(JsString(Blocks(snippet.v)[1]), options).sentences
           /\ extraction.ret
                = extractTextFragment(JsString(Blocks(snippet.v)[1]), options)

Keyworded == pc = "keyworded"
\* the tokens of s: the maximal runs of letters, digits and _ of the
\* lowercased text
Tokens(s) ==
    LET l == toLowerCase(Expand(s))
    IN  {SubSeq(l, i, j) : <<i, j>> \in
           {ij \in (1..Len(l)) \X (1..Len(l)) :
              /\ ij[1] <= ij[2]
              /\ \A k \in ij[1]..ij[2] : l[k] \in WordChar
              /\ (ij[1] = 1 \/ l[ij[1] - 1] \notin WordChar)
              /\ (ij[2] = Len(l) \/ l[ij[2] + 1] \notin WordChar)}}

\* C16: every keyword is lowercase, longer than 2 and no stop word; every
\* such token of the text is a keyword; the empty text has no keywords;
\* "the cat is on the mat" has cat and mat and none of the, is, on.
C16_KeywordsAreTheFilteredTokens ==
    Keyworded =>
        /\ \A k \in keywords :
             ~Has(k, Upper) /\ Len(k) > 2 /\ k \notin STOP_WORDS
        /\ \A t \in Tokens(text) :
             (Len(t) > 2 /\ t \notin STOP_WORDS) => t \in keywords
        /\ text = <<>> => keywords = {}
        /\ text = TheCatIsOnTheMat =>
             /\ {<<"c","a","t">>, <<"m","a","t">>} \subseteq keywords
             /\ keywords \cap {<<"t","h","e">>, <<"i","s">>, <<"o","n">>} = {}

\* C16 happens: the keywords of the example were extracted.
C16_Witness ==
    /\ Keyworded
    /\ text = TheCatIsOnTheMat
    /\ keywords = {<<"c","a","t">>, <<"m","a","t">>}

\* C17: every keyword consists of letters and digits only.
C17_KeywordsAlphanumeric ==
    Keyworded =>
        \A k \in keywords : \A i \in 1..Len(k) : k[i] \in Lower \cup Upper \cup Digit

Sanitized == pc \in {"sanitized", "resanitized"}
\* whether s has a substring [digits]
HasMarker(s) ==
    \E i \in 1..Len(s) : \E j \in (i + 2)..Len(s) :
        /\ s[i] = "[" /\ s[j] = "]"
        /\ \A k \in (i + 1)..(j - 1) : s[k] \in Digit

\* C18: the output of sanitizeFragment has no bracketed all-digit marker,
\* also when the marker only appears once < and > are stripped or is
\* adjacent to other brackets; "Rule A [12] applies." loses its "[12]".
C18_NoReferenceMarker ==
    Sanitized =>
        /\ ~HasMarker(once)
        /\ text = RuleExample => ~Includes(once, <<"[", "1", "2", "]">>)

\* C18 happens: a text whose marker is hidden by < or > was sanitized to
\* something.
C18_Witness ==
    /\ Sanitized
    /\ ~HasMarker(text)
    /\ HasMarker(ReplaceChars(text, {"<", ">"}, <<>>))
    /\ once # <<>>

CurlyDouble == {"U+201C", "U+201D"}
CurlyApostrophe == {"U+2018", "U+2019"}
\* s with the typographic quotes made straight
Straightened(s) ==
    [i \in 1..Len(s) |-> IF s[i] \in CurlyDouble THEN "\""
                         ELSE IF s[i] \in CurlyApostrophe THEN "'" ELSE s[i]]

\* C19: the output of sanitizeFragment has no curly double quote and no
\* curly apostrophe: each is replaced by the straight " or '.
C19_QuotesNormalized ==
    Sanitized =>
        /\ ~Has(once, CurlyDouble \cup CurlyApostrophe)
        /\ once = sanitizeFragment(Straightened(text))

\* the products navigator.userAgent names
Products == {p \in AgentProducts : p \in {SplitRuns(userAgent, {" "})[i] :
                                            i \in 1..Len(SplitRuns(userAgent, {" "}))}}
Chromium == <<"C","h","r","o","m","e">> \in Products
EdgeBuild == Products \cap {<<"E","d","g">>, <<"E","d","g","e">>} # {}
SafariBuild == <<"S","a","f","a","r","i">> \in Products
\* a Gecko Firefox: it names Firefox and no product of another engine
FirefoxFamily ==
    /\ <<"F","i","r","e","f","o","x">> \in Products
    /\ Products \subseteq {<<"M","o","z","i","l","l","a">>, <<"G","e","c","k","o">>,
                           <<"F","i","r","e","f","o","x">>}

\* C20: supportsTextFragments is true when document has fragmentDirective;
\* otherwise it is true exactly for a Chromium that is not Edge, an Edge, or
\* a Safari that is not Chromium; a Firefox without the native capability
\* gets false; a second call in the same environment answers the same.
C20_SupportByCapabilityOrAgent ==
    /\ pc \in {"answered", "answeredAgain"} =>
         /\ "fragmentDirective" \in document => supported
         /\ "fragmentDirective" \notin document =>
              (supported <=> \/ (Chromium /\ ~EdgeBuild)
                             \/ EdgeBuild
                             \/ (SafariBuild /\ ~Chromium))
         /\ ("fragmentDirective" \notin document /\ FirefoxFamily) => ~supported
    /\ pc = "answeredAgain" => supportedAgain = supported

\* C20 happens: a Firefox without the capability was asked twice.
C20_Witness ==
    /\ pc = "answeredAgain"
    /\ "fragmentDirective" \notin document
    /\ FirefoxFamily
    /\ ~supported /\ ~supportedAgain

BothVariants == pc = "bothVariants"
\* with an empty query: whether the sentence the query-aware variant picked
\* is another one than the ranking without the conciseness bonus picks, the
\* earliest of the shortest sentences within [minWords, maxWords]
BonusChangesChoice ==
    LET r == extraction.ranked
        shortest == {k \in InBounds(r) :
                       \A m \in InBounds(r) : r[k].wordCount <= r[m].wordCount}
    IN  /\ shortest # {}
        /\ extraction.picked # r[First(shortest, 0)].sentence

\* C21: for the same snippet, the same maxWords and minWords and an empty
\* query, the query-aware variant returns the fragment the length-only
\* variant returns, unless the conciseness bonus changed the choice.
C21_SameFragmentAsLengthOnly ==
    (/\ BothVariants
     /\ options.query = <<>>
     /\ options.maxWords # 0 /\ options.minWords # 0
     /\ ~BonusChangesChoice)
        => Expand(extraction.ret) = Expand(lengthOnly.ret)

Rendered == pc = "rendered"
\* the URL of the source: its url, else its link, else "#"
SourceUrl ==
    IF NonEmptyString(source.url) THEN source.url.v
    ELSE IF NonEmptyString(source.link) THEN source.link.v
    ELSE <<"#">>
\* whether s has sub as a substring
Contains(s, sub) ==
    \E i \in 1..(Len(s) - Len(sub) + 1) : SubSeq(s, i, i + Len(sub) - 1) = sub
PdfSource ==
    \/ Contains(SourceUrl, PdfSuffix)
    \/ Contains(SourceUrl, GcsConsoleHost)
    \/ Contains(SourceUrl, GcsApiHost)
NonBlankSnippet ==
    /\ source.snippet.t = "string"
    /\ \E i \in 1..Len(source.snippet.v) : source.snippet.v[i] \notin Space
\* the four conditions of highlighting
MayHighlight ==
    /\ ~PdfSource
    /\ Count(SourceUrl, "#") = 0
    /\ NonBlankSnippet
    /\ supportsTextFragments(document, userAgent)
\* the href is the URL with one text directive for a non-empty fragment
GeneratedHref ==
    /\ extraction.ret # <<>>
    /\ link.href = SourceUrl \o Directive
                     \o encodeURIComponent(extraction.ret)

\* C22: the href of the link renderSourceLink returns is a generated
\* text-fragment URL only if the URL is not a PDF/GCS document, has no #,
\* the snippet is not blank and supportsTextFragments() is true; otherwise
\* it is the source URL unchanged ("#" for a PDF source); and the tooltip is
\* set only when the runtime lacks support and there is a snippet.
C22_HighlightOnlyWhenEligible ==
    Rendered =>
        /\ \/ link.href = (IF PdfSource THEN <<"#">> ELSE SourceUrl)
           \/ MayHighlight /\ GeneratedHref
        /\ ~MayHighlight => link.href = (IF PdfSource THEN <<"#">> ELSE SourceUrl)
        /\ link.title.t # "undefined" =>
             /\ ~supportsTextFragments(document, userAgent)
             /\ NonEmptyString(source.snippet)

\* C22 happens: a link was rendered with a generated text-fragment URL
C22_Witness ==
    /\ Rendered
    /\ MayHighlight
    /\ GeneratedHref
    /\ link.href # SourceUrl
    /\ link.title.t = "undefined"

\* the sentences of the cleaned block whose number of words is within
\* [minWords, maxWords], by their position
LengthValid ==
    {i \in 1..Len(extraction.sentences) :
        /\ Len(WordsOf(extraction.sentences[i])) >= extraction.minWords
        /\ Len(WordsOf(extraction.sentences[i])) <= extraction.maxWords}
Ranked == extraction.path \in {"best", "valid"}
Truncated == extraction.path \in {"no-sentence", "truncate"}

\* C23: a sentence with fewer than minWords or more than maxWords words is
\* never returned as a ranked result: when some sentence of the cleaned
\* block is within the bounds the result is sanitizeFragment of such a
\* sentence, and the first-maxWords-words truncation is returned only when
\* no sentence is within the bounds.
C23_DisqualifiedNeverReturned ==
    (Extracted /\ (Ranked \/ Truncated)) =>
        /\ LengthValid # {} =>
             /\ Ranked
             /\ \E i \in LengthValid :
                  /\ extraction.picked = extraction.sentences[i]
                  /\ extraction.ret = sanitizeFragment(extraction.sentences[i])
        /\ Truncated => LengthValid = {}
        /\ Ranked => LengthValid # {}

\* C23 happens: a sentence outside the bounds comes first, one within the
\* bounds follows, and the latter was returned
C23_Witness ==
    /\ Extracted
    /\ Len(extraction.sentences) >= 2
    /\ 1 \notin LengthValid
    /\ 2 \in LengthValid
    /\ extraction.picked = extraction.sentences[2]
    /\ extraction.picked # extraction.sentences[1]
    /\ extraction.ret = sanitizeFragment(extraction.sentences[2])

ExperimentExtracted == pc \in {"fragment", "fullUrl"}
\* the query keywords that are in the keyword set of sentence s
ExactMatches(s) == extractKeywords(options.query) \cap extractKeywords(s)
\* the query keywords that are not, but are inside a keyword of s or have
\* one inside them
PartialMatches(s) ==
    {q \in extractKeywords(options.query) \ extractKeywords(s) :
        \E w \in extractKeywords(s) : Contains(w, q) \/ Contains(q, w)}
\* whether the number of words of s is within the bounds of the call
WithinBounds(s) ==
    /\ Len(WordsOf(s)) >= extraction.minWords
    /\ Len(WordsOf(s)) <= extraction.maxWords

\* C24: the score of a sentence within [minWords, maxWords] is 2 for each
\* query keyword in its keyword set, 1 for each other query keyword that
\* is inside one of its keywords or has one inside it, and 1 more when it
\* has at most 6 words; it is between 0 and 2 * |queryKeywords| + 1, and the
\* score is -1 exactly for the sentences outside the bounds.
C24_ScoreFormula ==
    ExperimentExtracted =>
        \A k \in 1..Len(extraction.ranked) :
            LET r == extraction.ranked[k]
            IN  /\ WithinBounds(r.sentence) =>
                     /\ r.score = 2 * Cardinality(ExactMatches(r.sentence))
                                  + Cardinality(PartialMatches(r.sentence))
                                  + (IF Len(WordsOf(r.sentence)) <= 6 THEN 1 ELSE 0)
                     /\ r.score >= 0
                     /\ r.score <= 2 * Cardinality(extractKeywords(options.query)) + 1
                /\ r.score = -1 <=> ~WithinBounds(r.sentence)

\* C24 happens: the one query keyword is inside two keywords of a ranked
\* sentence of more than 6 words, which scores 1
C24_Witness ==
    /\ ExperimentExtracted
    /\ \E k \in 1..Len(extraction.ranked) :
         LET r == extraction.ranked[k]
         IN  /\ WithinBounds(r.sentence)
             /\ Len(WordsOf(r.sentence)) > 6
             /\ Cardinality(PartialMatches(r.sentence)) = 1
             /\ Cardinality({w \in extractKeywords(r.sentence) :
                   \E q \in PartialMatches(r.sentence) : Contains(w, q)}) >= 2
             /\ r.score = 1

\* C25: the best-match return (the top-ranked sentence when its score is
\* above 0) is taken only if some query keyword matches a keyword of that
\* sentence exactly or by substring; without overlap the call goes on to the
\* fallback.
C25_BestMatchHasKeywordOverlap ==
    (ExperimentExtracted /\ extraction.path = "best") =>
        ExactMatches(extraction.picked) \cup PartialMatches(extraction.picked) # {}

\* C26: when no sentence has a positive score, the fallback returns the
\* first sentence of the snippet, in text order, whose number of words is
\* within [minWords, maxWords].
C26_FallbackFirstInTextOrder ==
    (ExperimentExtracted /\ extraction.path = "valid") =>
        /\ LengthValid # {}
        /\ extraction.picked = extraction.sentences[First(LengthValid, 0)]
        /\ extraction.ret = sanitizeFragment(extraction.sentences[First(LengthValid, 0)])

\* the sentences within the bounds that have at most 6 words
Concise == {i \in LengthValid : Len(WordsOf(extraction.sentences[i])) <= 6}
\* whether the fragment is that of a sentence of set with the fewest words
ShortestOf(set) ==
    \E i \in set :
        /\ \A j \in set : Len(WordsOf(extraction.sentences[i]))
                            <= Len(WordsOf(extraction.sentences[j]))
        /\ extraction.ret = sanitizeFragment(extraction.sentences[i])

\* C27: without a query every score is -1 (outside the bounds), 0 (within,
\* more than 6 words) or 1 (within, at most 6 words), and the result is the
\* shortest sentence of minWords..6 words if there is one, else the shortest
\* sentence within the bounds, else the first maxWords words.
C27_NoQuerySelection ==
    (/\ Extracted
     /\ NonEmptyString(snippet)
     /\ options.query = <<>>) =>
        /\ \A k \in 1..Len(extraction.ranked) :
             LET r == extraction.ranked[k]
             IN  r.score = (IF ~WithinBounds(r.sentence) THEN -1
                            ELSE IF Len(WordsOf(r.sentence)) <= 6 THEN 1 ELSE 0)
        /\ IF Concise # {} THEN ShortestOf(Concise)
           ELSE IF LengthValid # {} THEN ShortestOf(LengthValid)
           ELSE extraction.ret =
                  sanitizeFragment(Join(Slice0(WordsOf(extraction.cleaned),
                                               extraction.maxWords), <<" ">>))

Answered == pc \in {"answered", "answeredAgain"}
\* whether the lower-cased user agent mentions name
Mentions(name) == Contains(toLowerCase(userAgent), name)

\* C28: the exclusions in the user-agent tests change nothing: the result
\* is (fragmentDirective in document) or ua contains "chrome" or ua contains
\* "edg" or ua contains "safari", so an agent that mentions "safari" or
\* "chrome" is reported as supporting whatever its family.
C28_ExclusionsHaveNoEffect ==
    Answered =>
        /\ supported <=> \/ "fragmentDirective" \in document
                         \/ Mentions(<<"c","h","r","o","m","e">>)
                         \/ Mentions(<<"e","d","g">>)
                         \/ Mentions(<<"s","a","f","a","r","i">>)
        /\ (Mentions(<<"s","a","f","a","r","i">>)
            \/ Mentions(<<"c","h","r","o","m","e">>)) => supported

\* C28 happens: without the capability, an agent that names Chrome and Edg
\* fails the Chrome test by its exclusion and is reported as supporting
C28_Witness ==
    /\ Answered
    /\ "fragmentDirective" \notin document
    /\ Chromium /\ EdgeBuild /\ ~SafariBuild
    /\ supported

\* the sentences within the bounds that tie with the returned one in both
\* score and number of words, by their position
FullTies ==
    {j \in LengthValid :
        /\ ScoreOf(extraction.sentences[j]) = ScoreOf(extraction.picked)
        /\ Len(WordsOf(extraction.sentences[j])) = Len(WordsOf(extraction.picked))}

\* C29: when several sentences share the top score and the number of
\* words, the one that comes first in the cleaned block is returned: the
\* returned sentence is top-ranked and is the earliest of its full ties.
C29_EarliestOfFullTies ==
    (Extracted /\ Ranked) =>
        /\ \A j \in LengthValid :
             \/ ScoreOf(extraction.sentences[j]) < ScoreOf(extraction.picked)
             \/ /\ ScoreOf(extraction.sentences[j]) = ScoreOf(extraction.picked)
                /\ Len(WordsOf(extraction.picked))
                     <= Len(WordsOf(extraction.sentences[j]))
        /\ FullTies # {}
        /\ extraction.picked = extraction.sentences[First(FullTies, 0)]
        /\ extraction.ret = sanitizeFragment(extraction.sentences[First(FullTies, 0)])
        /\ extraction = Extract(snippet, options)

\* C29 happens: two different sentences tie in score and words at the top,
\* and the fragment is that of the first, not of the second
C29_Witness ==
    /\ Extracted /\ Ranked
    /\ Cardinality(FullTies) >= 2
    /\ \E i \in FullTies : \E j \in FullTies :
         /\ i < j
         /\ extraction.sentences[i] # extraction.sentences[j]
         /\ extraction.ret = sanitizeFragment(extraction.sentences[i])
         /\ extraction.ret # sanitizeFragment(extraction.sentences[j])

\* the sentences within the bounds that have a query keyword in their
\* keyword set, and those that match no query keyword at all
ExactlyMatched == {i \in LengthValid : ExactMatches(extraction.sentences[i]) # {}}
Unmatched ==
    {i \in LengthValid :
        ExactMatches(extraction.sentences[i])
          \cup PartialMatches(extraction.sentences[i]) = {}}

\* C30 as stated: a sentence within the bounds that has a query keyword
\* outranks every sentence within the bounds that matches none (score >= 2
\* against score <= 1), and when there is one the returned fragment is never
\* the sanitized form of a sentence that matches none.
C30_NeverFragmentOfUnmatched ==
    (Extracted /\ ExactlyMatched # {}) =>
        \A b \in Unmatched :
            /\ \A a \in ExactlyMatched : ScoreOf(extraction.sentences[a]) >= 2
            /\ ScoreOf(extraction.sentences[b]) <= 1
            /\ extraction.ret # sanitizeFragment(extraction.sentences[b])

\* C30, amended: ... and when there is one the returned sentence is never a
\* sentence that matches none; the fragment is that of such a sentence only
\* when the returned sentence has the same sanitized form.
C30_ExactMatchOutranksUnmatched ==
    (Extracted /\ ExactlyMatched # {}) =>
        /\ Ranked
        /\ ScoreOf(extraction.picked) >= 2
        /\ extraction.ret = sanitizeFragment(extraction.picked)
        /\ \A b \in Unmatched :
            /\ \A a \in ExactlyMatched : ScoreOf(extraction.sentences[a]) >= 2
            /\ ScoreOf(extraction.sentences[b]) <= 1
            /\ extraction.picked # extraction.sentences[b]
            /\ extraction.ret = sanitizeFragment(extraction.sentences[b])
                 => sanitizeFragment(extraction.picked)
                      = sanitizeFragment(extraction.sentences[b])

\* C30 happens: a sentence that matches no query keyword comes first, one
\* with the keyword follows, and the fragment is that of the second
C30_Witness ==
    /\ Extracted
    /\ 1 \in Unmatched
    /\ 2 \in ExactlyMatched
    /\ extraction.picked = extraction.sentences[2]
    /\ extraction.ret = sanitizeFragment(extraction.sentences[2])
    /\ extraction.ret # sanitizeFragment(extraction.sentences[1])

=============================================================================
